------------------------------ MODULE MCQueue ------------------------------
(* A ring of four slots holding two kinds of item: it fills, empties and   *)
(* wraps in every order, with the consumer stopped at every access.        *)
EXTENDS Queue
=============================================================================
