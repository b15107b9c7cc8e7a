----------------------------- MODULE MCSockets -----------------------------
(* A task of the application, more urgent than the tcpip thread, and one   *)
(* thread of lwIP; what each of them calls.                                *)
EXTENDS Sockets

CallsOfOne(t) == IF t \in Urgent THEN {"select", "recv", "close"}
                 ELSE {"accept", "recv", "send", "select", "close"}
MCCalls == [t \in Task |-> CallsOfOne(t)]
=============================================================================
