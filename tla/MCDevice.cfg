SPECIFICATION Spec
CONSTANTS
  Task = {t1, t2, t3}
  Slot = {0, 1}
  Name = {a, b}
  Sem = {s1, s2}
  None = None
  Allowed = {"closeLate"}
INVARIANTS
  DriverWhileOpen
PROPERTY
  CloseEnds
