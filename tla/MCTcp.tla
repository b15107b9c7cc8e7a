------------------------------- MODULE MCTcp -------------------------------
(* Sequence numbers that wrap, segments of two bytes, and three plans: a     *)
(* connection that is closed or aborted, a longer stream, in which a segment *)
(* that was chained to is acknowledged in part, and data both ways.          *)
EXTENDS Tcp
MCIss == [h \in Host |-> IF h = Client THEN Modulus - 2 ELSE 20]

Writes(n, lengths) == [bytes |-> n, sizes |-> lengths, closes |-> FALSE, aborts |-> FALSE]
Closes(p) == [p EXCEPT !.closes = TRUE]
Hosts(client, server) == [h \in Host |-> IF h = Client THEN client ELSE server]

MCPlans ==
    {Hosts([Closes(Writes(3, {3})) EXCEPT !.aborts = TRUE], Closes(Writes(0, {}))),
     Hosts(Writes(5, {1, 3}), Writes(0, {})),
     Hosts(Writes(2, {2}), Writes(2, {2}))}
=============================================================================
