SPECIFICATION Spec
CONSTANTS
  None = None
  Idle = 9
  SpareTcb = 0
  MaxLock = 0
  Task = {1, 2, 3, 9}
  Boot = {1, 2, 3, 9}
  Event = {e1}
  MaxDly = 1
  MaySuspend = {2}
  MayDelete = {2}
  Msg = {m1, m2}
  Qcb = {}
  QSize = 1
  MboxInit = {e1}
  QInit = {}
  DelOpts = {"OS_DEL_NO_PEND", "OS_DEL_ALWAYS"}
  PostOpts = {{"BROADCAST"}}
  IrqEvent = {e1}
INVARIANT
  TimeoutOrMessage
PROPERTIES
  ImplementsMessageBox
