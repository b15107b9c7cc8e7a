------------------------------- MODULE Queue -------------------------------
(***************************************************************************)
(* The ring buffer of src/queue.c, shared without a lock by one producer   *)
(* and one consumer.  The producer runs with interrupts masked: it is an   *)
(* interrupt handler (isr_serial_port, isr_keyboard) or a task inside      *)
(* ARMDisableInt/ARMEnableInt (debugf), so a whole PushQueue is one step.  *)
(* The consumer is a task (ReadSerialPort, ReadKeyboard, DebugOutputTask)  *)
(* that can be interrupted between any two accesses of PopQueue, so every  *)
(* access of PopQueue is a step of its own, and head really takes the      *)
(* value Count between `++head' and the wrap.                              *)
(***************************************************************************)
EXTENDS Naturals

CONSTANTS Count,    \* slots of the ring
          Item      \* what the slots hold

ASSUME CountAssumption == Count \in Nat \ {0, 1}

VARIABLES Buffer, head, tail,
          pc,       \* where the consumer is inside PopQueue
          object    \* what PopQueue copied out last

vars == <<Buffer, head, tail, pc, object>>

Slot == 0 .. Count - 1

IsQueueEmpty == head = tail

IsQueueFull == \/ head = tail + 1
               \/ head = 0 /\ tail = Count - 1

TypeOK == /\ Buffer \in [Slot -> Item]
          /\ head \in 0 .. Count
          /\ tail \in Slot
          /\ pc \in {"idle", "copy", "copied", "discard", "wrap"}
          /\ object \in Item

Init == /\ Buffer \in [Slot -> Item]   \* InitializeQueue does not clear it
        /\ head = 0
        /\ tail = 0
        /\ pc = "idle"
        /\ object \in Item

(***************************************************************************)
(* InitializeQueue again, when a port is reopened: its interrupt is off    *)
(* and nobody is reading it.                                               *)
(***************************************************************************)
InitializeQueue == /\ pc = "idle"
                   /\ head' = 0
                   /\ tail' = 0
                   /\ UNCHANGED <<Buffer, pc, object>>

(* Slip: the tail advances before the copy. *)
PushAfterAdvance(i) ==
  LET next == IF tail + 1 = Count THEN 0 ELSE tail + 1
  IN  /\ ~IsQueueFull
      /\ Buffer' = [Buffer EXCEPT ![next] = i]
      /\ tail' = next
      /\ UNCHANGED <<head, pc, object>>

PushQueue(i) == /\ ~IsQueueFull
                /\ Buffer' = [Buffer EXCEPT ![tail] = i]
                /\ tail' = IF tail + 1 = Count THEN 0 ELSE tail + 1
                /\ UNCHANGED <<head, pc, object>>

PopCheck == /\ pc = "idle"
            /\ ~IsQueueEmpty
            /\ pc' \in {"copy", "discard"}    \* object may be NULL
            /\ UNCHANGED <<Buffer, head, tail, object>>

(* Slip: the item is copied from the slot after the oldest one. *)
CopyNext == /\ pc = "copy"
            /\ object' = Buffer[(head + 1) % Count]
            /\ pc' = "copied"
            /\ UNCHANGED <<Buffer, head, tail>>

PopCopy == /\ pc = "copy"
           /\ object' = Buffer[head]
           /\ pc' = "copied"
           /\ UNCHANGED <<Buffer, head, tail>>

PopAdvance == /\ pc \in {"copied", "discard"}
              /\ head' = head + 1
              /\ pc' = IF head + 1 = Count THEN "wrap" ELSE "idle"
              /\ UNCHANGED <<Buffer, tail, object>>

PopWrap == /\ pc = "wrap"
           /\ head' = 0
           /\ pc' = "idle"
           /\ UNCHANGED <<Buffer, tail, object>>

PopQueue == PopCheck \/ PopCopy \/ PopAdvance \/ PopWrap

Next == \/ InitializeQueue
        \/ \E i \in Item : PushQueue(i)
        \/ PopQueue

Spec == Init /\ [][Next]_vars

-----------------------------------------------------------------------------
(* How many items are pushed and not yet removed, and which, oldest first. *)
Used == (tail + Count - head) % Count
Contents == [n \in 1 .. Used |-> Buffer[(head + n - 1) % Count]]

(***************************************************************************)
(* However the interrupt handler pushes while PopQueue is under way, what  *)
(* PopQueue has copied out is still the oldest item of the ring when it    *)
(* removes it: no push reuses the slot between the copy and `++head'.      *)
(***************************************************************************)
CopiedIsOldest == pc = "copied" => ~IsQueueEmpty /\ object = Buffer[head]

(***************************************************************************)
(* The ring is a bounded fifo of Count - 1 items: pushes and pops that     *)
(* interleave anywhere lose, repeat and reorder nothing, across the wrap   *)
(* of either index, and the item a push adds is the one it was given.      *)
(***************************************************************************)
Fifo == INSTANCE BoundedFifo WITH fifo <- Contents, Capacity <- Count - 1
ImplementsFifo == /\ Fifo!Spec
                  /\ [][\A i \in Item : PushQueue(i) => Fifo!Put(i)]_vars

=============================================================================
