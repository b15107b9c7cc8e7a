------------------------------ MODULE MutexLock ------------------------------
(***************************************************************************)
(* What a mutex promises: at most one owner, who alone can release it; a   *)
(* release passes it to the most urgent waiter, and frees it only when     *)
(* nobody waits; nobody waits for a mutex that is free.                    *)
(***************************************************************************)
EXTENDS Naturals

CONSTANTS Task, Mutex, None

VARIABLES owner, waiting,
          prio    \* per task; whoever else may change it at any time

vars == <<owner, waiting>>

Init == owner = [m \in Mutex |-> None] /\ waiting = [m \in Mutex |-> {}]

Acquire(m, t) == /\ owner[m] = None /\ waiting[m] = {}
                 /\ owner' = [owner EXCEPT ![m] = t]
                 /\ UNCHANGED waiting

Wait(m, t) == /\ owner[m] \notin {None, t}
              /\ waiting' = [waiting EXCEPT ![m] = @ \cup {t}]
              /\ UNCHANGED owner

GiveUp(m, t) == /\ waiting' = [waiting EXCEPT ![m] = @ \ {t}]
                /\ UNCHANGED owner

Release(m) ==
  /\ owner[m] # None
  /\ \/ /\ waiting[m] = {}
        /\ owner' = [owner EXCEPT ![m] = None]
        /\ UNCHANGED waiting
     \/ \E t \in waiting[m] :
          /\ \A u \in waiting[m] : prio[t] <= prio[u]
          /\ owner' = [owner EXCEPT ![m] = t]
          /\ waiting' = [waiting EXCEPT ![m] = @ \ {t}]

Next == \E m \in Mutex : \/ Release(m)
                         \/ \E t \in Task : Acquire(m, t) \/ Wait(m, t) \/ GiveUp(m, t)

Spec == Init /\ [][Next]_vars
=============================================================================
