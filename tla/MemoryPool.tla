----------------------------- MODULE MemoryPool -----------------------------
(***************************************************************************)
(* What a memory allocator promises: an allocation is a run of chunks that *)
(* nobody had, it stays as it is until it is given back, and it is given   *)
(* back as a whole.                                                        *)
(***************************************************************************)
EXTENDS Naturals

CONSTANTS Chunk, None      \* Chunk: the indices of the chunks

VARIABLE allocation        \* per chunk, the first chunk of its allocation

Init == allocation = [c \in Chunk |-> None]

Allocate(p, q) ==
  /\ p \in Chunk /\ q \in Chunk /\ p <= q
  /\ \A c \in p .. q : allocation[c] = None
  /\ allocation' = [c \in Chunk |-> IF c \in p .. q THEN p ELSE allocation[c]]

Free(p) ==
  /\ allocation[p] = p
  /\ allocation' = [c \in Chunk |-> IF allocation[c] = p THEN None ELSE allocation[c]]

Next == \E p \in Chunk : Free(p) \/ \E q \in Chunk : Allocate(p, q)

Spec == Init /\ [][Next]_allocation
=============================================================================
