SPECIFICATION FairSpec
CONSTANTS
  None = None
  Idle = 9
  SemInit = {e1}
  Task = {1, 2, 3, 9}
  Event = {e1}
  MaxDly = 1
  Boot = {1, 2, 3, 9}
  SpareTcb = 0
  MaxLock = 1
  MaySuspend = {1}
  MayDelete = {}
  MaxCnt = 1
  DelOpts = {}
  IrqEvent = {e1}
INVARIANTS
  ReadyExact
  NoLostWakeup
  BlockedIsListed
  TimeoutOrGrant
PROPERTIES
  ImplementsSemaphore
  DelayEnds
