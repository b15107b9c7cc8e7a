SPECIFICATION Spec
CONSTANTS
    Tcpip = tcpip
    Urgent = {main}
    Thread = {server}
    Conn = {c0, c1}
    Listener = c0
    Size = 2
    Calls <- MCCalls
    MaxTraffic = 4
    Allowed = {"early"}
CHECK_DEADLOCK FALSE
INVARIANTS NoSleepOverData
