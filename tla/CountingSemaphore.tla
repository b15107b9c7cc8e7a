-------------------------- MODULE CountingSemaphore --------------------------
(***************************************************************************)
(* What OSSemPend and OSSemPost promise: a unit of the count is taken, or  *)
(* the caller waits; a signal goes to the most urgent waiter and to nobody *)
(* else, and is counted only when nobody waits; a waiter that gives up     *)
(* takes nothing with it.                                                  *)
(***************************************************************************)
EXTENDS Naturals

CONSTANTS Task, Event, MaxCnt

VARIABLES count,      \* units of each semaphore
          waiting,    \* the tasks waiting for one
          granted     \* the tasks a signal went to, until they return

vars == <<count, waiting, granted>>

Init == /\ \E n \in 0 .. MaxCnt, S \in SUBSET Event :
             count = [e \in Event |-> IF e \in S THEN n ELSE 0]
        /\ waiting = [e \in Event |-> {}]
        /\ granted = [e \in Event |-> {}]

Take(e) == /\ count[e] > 0
           /\ count' = [count EXCEPT ![e] = @ - 1]
           /\ UNCHANGED <<waiting, granted>>

Wait(e, t) == /\ count[e] = 0
              /\ \A f \in Event : t \notin waiting[f] \cup granted[f]
              /\ waiting' = [waiting EXCEPT ![e] = @ \cup {t}]
              /\ UNCHANGED <<count, granted>>

Signal(e) ==
  IF waiting[e] = {}
  THEN /\ count[e] < MaxCnt
       /\ count' = [count EXCEPT ![e] = @ + 1]
       /\ UNCHANGED <<waiting, granted>>
  ELSE \E t \in waiting[e] :
         /\ \A u \in waiting[e] : t <= u
         /\ waiting' = [waiting EXCEPT ![e] = @ \ {t}]
         /\ granted' = [granted EXCEPT ![e] = @ \cup {t}]
         /\ UNCHANGED count

Return(e, t) == /\ t \in granted[e]
                /\ granted' = [granted EXCEPT ![e] = @ \ {t}]
                /\ UNCHANGED <<count, waiting>>

GiveUp(e, t) == /\ t \in waiting[e]
                /\ waiting' = [waiting EXCEPT ![e] = @ \ {t}]
                /\ UNCHANGED <<count, granted>>

Reset(e, n) == /\ waiting[e] = {}
               /\ count' = [count EXCEPT ![e] = n]
               /\ UNCHANGED <<waiting, granted>>

Next == \E e \in Event : \/ Take(e) \/ Signal(e)
                         \/ \E t \in Task : Wait(e, t) \/ Return(e, t) \/ GiveUp(e, t)
                         \/ \E n \in 0 .. MaxCnt : Reset(e, n)

Spec == Init /\ [][Next]_vars
=============================================================================
