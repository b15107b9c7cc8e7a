SPECIFICATION Spec
CONSTANTS
  Tcb = {10, 11, 12, 20}
  Idle = 20
  Mutex = {2}
  MutexInit = {2}
  Sem = {s1}
  NewPrio = {15}
  None = None
  Reserved = Reserved
  Available = 255
  MaxDly = 1
  Timeout = {0, 1}
  MaySuspend = {11, 2}
  DelOpts = {"OS_DEL_NO_PEND", "OS_DEL_ALWAYS"}
  Allowed = {}
INVARIANTS
  WaitListed
  Inheritance
  RaisedOnlyOwner
PROPERTY
  ImplementsLock
