SPECIFICATION FairSpec
CONSTANTS
  Tcpip = tcpip
  Sleeper = {s1}
  Outsider = {}
  Starter = s1
  MEMP_NUM_SYS_TIMEOUT = 5
  MsPerTick = 2
  TCP_TMR_INTERVAL = 2
  IP_REASS_TMO = 4
  IP_REASS_MAXAGE = 2
  StartupInterval = 4
  SleepMs = {1, 4}
  Message = {"connect", "close", "fragment"}
  MaxMbox = 1
INVARIANTS
  TimersAlive
  NoDanglingTimeout
PROPERTIES
  ImplementsTimers
  WaitEnds
  FiresWhenQuiet
