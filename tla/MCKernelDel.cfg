SPECIFICATION Spec
CONSTANTS
  None = None
  Idle = 9
  SemInit = {e1}
  Task = {1, 2, 3, 9}
  Event = {e1}
  MaxDly = 1
  Boot = {2, 3, 9}
  SpareTcb = 0
  MaxLock = 1
  MaySuspend = {2}
  MayDelete = {1, 2}
  MaxCnt = 1
  DelOpts = {"OS_DEL_NO_PEND", "OS_DEL_ALWAYS"}
  IrqEvent = {}
INVARIANTS
  OnlyReadyRuns
  WaitListed
  TcbConserved
  HighestRuns
