---------------------------- MODULE BoundedFifo ----------------------------
(***************************************************************************)
(* What a queue of the SDK promises its users: a first-in first-out        *)
(* buffer that refuses an item exactly when it already holds Capacity of   *)
(* them, and never loses, duplicates or reorders an item it accepted.      *)
(***************************************************************************)
EXTENDS Naturals, Sequences

CONSTANTS Item, Capacity

VARIABLE fifo

Init == fifo = << >>

Put(i) == /\ Len(fifo) < Capacity
          /\ fifo' = Append(fifo, i)

Take == /\ fifo # << >>
        /\ fifo' = Tail(fifo)

Clear == fifo' = << >>

Next == (\E i \in Item : Put(i)) \/ Take \/ Clear

Spec == Init /\ [][Next]_fifo
=============================================================================
