----------------------------- MODULE ByteStream -----------------------------
(***************************************************************************)
(* What a connection promises to the two applications: each direction is a *)
(* stream of bytes 1, 2, 3, ...; what arrives is the next part of what was *)
(* sent, and the end of the stream is told after all of it.  broken says   *)
(* that a direction no longer promises anything.                           *)
(***************************************************************************)
EXTENDS Integers, Sequences

CONSTANTS A, B
VARIABLES sent, received, ended, broken

End == {A, B}
Other(e) == IF e = A THEN B ELSE A
streams == <<sent, received, ended, broken>>

Init ==
    /\ sent = [e \in End |-> 0] /\ received = [e \in End |-> <<>>]
    /\ ended = [e \in End |-> FALSE] /\ broken = [e \in End |-> FALSE]

\* Nothing is sent on a direction whose end has been told.
Send(e) ==
    /\ ~ended[Other(e)] \/ broken[Other(e)]
    /\ sent[e]' > sent[e]
    /\ sent' = [sent EXCEPT ![e] = sent[e]']
    /\ UNCHANGED <<received, ended, broken>>

Receive(e) ==
    /\ ~ended[e] /\ ~broken[e]
    /\ \E n \in 1 .. sent[Other(e)] - Len(received[e]) :
          received' = [received EXCEPT ![e] = @ \o [i \in 1 .. n |-> Len(@) + i]]
    /\ UNCHANGED <<sent, ended, broken>>

Finish(e) ==
    /\ ~broken[e] /\ Len(received[e]) = sent[Other(e)]
    /\ ended' = [ended EXCEPT ![e] = TRUE]
    /\ UNCHANGED <<sent, received, broken>>

\* A direction breaks; whatever is received on it afterwards.
Break(e) ==
    /\ broken' = [broken EXCEPT ![e] = TRUE]
    /\ \A f \in End \ {e} : received[f]' = received[f] /\ ended[f]' = ended[f]
    /\ sent' = sent

Next == \E e \in End : Send(e) \/ Receive(e) \/ Finish(e) \/ Break(e)

Spec == Init /\ [][Next]_streams
=============================================================================
