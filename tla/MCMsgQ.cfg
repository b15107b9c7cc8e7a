SPECIFICATION Spec
CONSTANTS
  None = None
  Idle = 9
  SpareTcb = 0
  MaxLock = 0
  Task = {1, 2, 9}
  Boot = {1, 2, 9}
  Event = {e1, e2}
  MaxDly = 1
  MaySuspend = {}
  MayDelete = {}
  Msg = {m1, m2}
  Qcb = {q1}
  QSize = 3
  MboxInit = {}
  QInit = {e1}
  DelOpts = {"OS_DEL_NO_PEND", "OS_DEL_ALWAYS"}
  PostOpts = {{"FRONT"}, {"BROADCAST"}}
  IrqEvent = {e1}
INVARIANTS
  BlocksConserved
PROPERTIES
  RefusedOnlyFull
  ImplementsMessageBox
