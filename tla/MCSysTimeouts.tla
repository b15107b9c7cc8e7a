--------------------------- MODULE MCSysTimeouts ---------------------------
(* The tcpip thread and one more thread, or the task of the application.   *)
EXTENDS SysTimeouts
=============================================================================
