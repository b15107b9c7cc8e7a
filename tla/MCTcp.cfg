SPECIFICATION Spec
CONSTANTS
  Client = c
  Server = s
  Mss = 2
  Wnd = 3
  SndBuf = 8
  MaxRtx = 1
  DupThreshold = 2
  Modulus = 64
  ByteMod = 4
  CwndMax = 7
  Iss <- MCIss
  Plans <- MCPlans
  MaxFaults = 1
INVARIANTS
  NothingLost
  Synchronised
  WindowRespected
  InSequenceOrder
PROPERTY
  ImplementsByteStream
CHECK_DEADLOCK FALSE
