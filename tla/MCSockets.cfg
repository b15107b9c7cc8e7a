SPECIFICATION FairSpec
CONSTANTS
    Tcpip = tcpip
    Urgent = {main}
    Thread = {server}
    Conn = {c0, c1}
    Listener = c0
    Size = 2
    Calls <- MCCalls
    MaxTraffic = 3
    Allowed = {}
CHECK_DEADLOCK FALSE
INVARIANTS EventsCounted NoSleepOverData NoStaleSignal NoFreedConn
PROPERTIES CloseReturns
