---------------------------- MODULE Queue_proofs ----------------------------
(***************************************************************************)
(* Proofs about the ring buffer, for a ring of any size.                   *)
(***************************************************************************)
EXTENDS Queue, SequenceTheorems, TLAPS

(***************************************************************************)
(* Between PopCheck and `++Head' the ring stays non-empty and the copy     *)
(* stays the item at Head: this is what makes CopiedIsOldest inductive.    *)
(***************************************************************************)
PopInProgress == /\ pc \in {"copy", "copied", "discard"} => head # tail
                 /\ pc = "copied" => object = Buffer[head]
                 /\ pc = "wrap" <=> head = Count

IInv == TypeOK /\ PopInProgress

LEMMA InitIInv == Init => IInv
  BY CountAssumption DEF Init, IInv, TypeOK, PopInProgress, Slot

LEMMA NextIInv == IInv /\ [Next]_vars => IInv'
  <1> SUFFICES ASSUME IInv, [Next]_vars PROVE IInv'
    OBVIOUS
  <1> USE CountAssumption DEF IInv, TypeOK, PopInProgress, Slot
  <1>1. CASE InitializeQueue
    BY <1>1 DEF InitializeQueue
  <1>2. ASSUME NEW i \in Item, PushQueue(i) PROVE IInv'
    <2>1. TypeOK'
      BY <1>2 DEF PushQueue
    <2>2. head' = head /\ pc' = pc /\ object' = object
      BY <1>2 DEF PushQueue
    <2>3. tail' # head
      BY <1>2 DEF PushQueue, IsQueueFull
    <2>4. pc = "copied" => Buffer'[head] = Buffer[head]
      BY <1>2 DEF PushQueue
    <2> QED
      BY <2>1, <2>2, <2>3, <2>4
  <1>3. CASE PopCheck
    BY <1>3 DEF PopCheck, IsQueueEmpty
  <1>4. CASE PopCopy
    BY <1>4 DEF PopCopy
  <1>5. CASE PopAdvance
    BY <1>5 DEF PopAdvance
  <1>6. CASE PopWrap
    BY <1>6 DEF PopWrap
  <1>7. CASE UNCHANGED vars
    BY <1>7 DEF vars
  <1> QED
    BY <1>1, <1>2, <1>3, <1>4, <1>5, <1>6, <1>7 DEF Next, PopQueue

(***************************************************************************)
(* Every variable of the ring keeps its type, whatever interleaving of     *)
(* pushes and pops: Head never exceeds Count and Tail is always a slot.    *)
(***************************************************************************)
THEOREM QueueType == Spec => []TypeOK
  <1>1. IInv => TypeOK
    BY DEF IInv
  <1> QED
    BY <1>1, InitIInv, NextIInv, PTL DEF Spec

(***************************************************************************)
(* For a ring of any size, an item that PopQueue copied out is the oldest  *)
(* one and is still in the ring when PopQueue removes it.                  *)
(***************************************************************************)
THEOREM PopTakesOldest == Spec => []CopiedIsOldest
  <1>1. IInv => CopiedIsOldest
    BY DEF IInv, PopInProgress, CopiedIsOldest, IsQueueEmpty
  <1> QED
    BY <1>1, InitIInv, NextIInv, PTL DEF Spec

-----------------------------------------------------------------------------
(* Contents, as a function of the buffer and the two indices. *)
Ring(b, h, t) == [n \in 1 .. (t + Count - h) % Count |-> b[(h + n - 1) % Count]]
Size(h, t) == IF t >= h THEN t - h ELSE t + Count - h
Index(h, n) == IF h + n - 1 < Count THEN h + n - 1 ELSE h + n - 1 - Count

LEMMA Mod ==
  ASSUME NEW a \in 0 .. 2 * Count - 1
  PROVE  a % Count = IF a < Count THEN a ELSE a - Count
  BY CountAssumption

LEMMA RingIs ==
  ASSUME NEW b \in [Slot -> Item], NEW h \in 0 .. Count, NEW t \in Slot
  PROVE  /\ Size(h, t) \in 0 .. Count - 1
         /\ \A n \in 1 .. Size(h, t) : Index(h, n) \in Slot
         /\ Ring(b, h, t) \in Seq(Item) /\ Len(Ring(b, h, t)) = Size(h, t)
         /\ \A n \in 1 .. Size(h, t) : Ring(b, h, t)[n] = b[Index(h, n)]
  <1> USE CountAssumption DEF Slot
  <1>1. Size(h, t) \in 0 .. Count - 1 /\ (t + Count - h) % Count = Size(h, t)
    <2>1. PICK a \in 0 .. 2 * Count - 1 : a = t + Count - h
      OBVIOUS
    <2>2. a % Count = IF a < Count THEN a ELSE a - Count
      BY Mod
    <2>3. Size(h, t) = IF a < Count THEN a ELSE a - Count
      BY <2>1 DEF Size
    <2> QED
      BY <2>1, <2>2, <2>3
  <1>2. ASSUME NEW n \in 1 .. Size(h, t)
        PROVE  Index(h, n) \in Slot /\ (h + n - 1) % Count = Index(h, n)
    <2>1. PICK a \in 0 .. 2 * Count - 1 : a = h + n - 1
      BY <1>1
    <2>2. a % Count = IF a < Count THEN a ELSE a - Count
      BY Mod
    <2>3. Index(h, n) = IF a < Count THEN a ELSE a - Count
      BY <2>1 DEF Index
    <2> QED
      BY <2>1, <2>2, <2>3
  <1>3. Ring(b, h, t) = [n \in 1 .. Size(h, t) |-> b[Index(h, n)]]
    BY <1>1, <1>2 DEF Ring
  <1>4. \A n \in 1 .. Size(h, t) : b[Index(h, n)] \in Item
    BY <1>2
  <1> HIDE DEF Size, Index
  <1> QED
    BY SMTT(60), <1>1, <1>2, <1>3, <1>4

LEMMA ContentsRing ==
  /\ Contents = Ring(Buffer, head, tail)
  /\ Contents' = Ring(Buffer', head', tail')
  BY DEF Contents, Used, Ring

(* A ring just cleared, a push, a pop, and the wrap of the head. *)
LEMMA RingEmpty ==
  ASSUME NEW b \in [Slot -> Item], NEW h \in Slot
  PROVE  Ring(b, h, h) = << >>
  <1>1. Size(h, h) = 0
    BY CountAssumption DEF Size, Slot
  <1>2. Ring(b, h, h) \in Seq(Item) /\ Len(Ring(b, h, h)) = 0
    BY <1>1, RingIs, CountAssumption DEF Slot
  <1> QED
    BY <1>2, EmptySeq

LEMMA RingPush ==
  ASSUME NEW b \in [Slot -> Item], NEW h \in 0 .. Count, NEW t \in Slot, NEW i \in Item,
         h # t + 1, ~(h = 0 /\ t = Count - 1)
  PROVE  LET u == IF t + 1 = Count THEN 0 ELSE t + 1
         IN  /\ Size(h, t) < Count - 1
             /\ Ring([b EXCEPT ![t] = i], h, u) = Append(Ring(b, h, t), i)
  <1> DEFINE u == IF t + 1 = Count THEN 0 ELSE t + 1
             c == [b EXCEPT ![t] = i]
             old == Ring(b, h, t)
             new == Ring(c, h, u)
  <1>1. u \in Slot /\ c \in [Slot -> Item] /\ t \in Nat /\ h \in Nat
    BY CountAssumption DEF Slot
  <1>2. /\ Size(h, t) < Count - 1 /\ Size(h, u) = Size(h, t) + 1
        /\ Index(h, Size(h, t) + 1) = t
        /\ \A n \in 1 .. Size(h, t) : Index(h, n) # t
    BY <1>1, CountAssumption DEF Size, Index, Slot
  <1>3. /\ old \in Seq(Item) /\ Len(old) = Size(h, t)
        /\ \A n \in 1 .. Size(h, t) : old[n] = b[Index(h, n)] /\ Index(h, n) \in Slot
        /\ Size(h, t) \in Nat
    BY RingIs
  <1>4. /\ new \in Seq(Item) /\ Len(new) = Size(h, t) + 1
        /\ \A n \in 1 .. Size(h, t) + 1 : new[n] = c[Index(h, n)]
    BY <1>1, <1>2, RingIs
  <1> HIDE DEF new, old, c, u
  <1>5. Append(old, i) \in Seq(Item) /\ Len(Append(old, i)) = Len(new)
    BY <1>3, <1>4
  <1>6. ASSUME NEW n \in 1 .. Len(new) PROVE new[n] = Append(old, i)[n]
    <2>1. CASE n = Size(h, t) + 1
      BY <1>2, <1>3, <1>4, <2>1 DEF c
    <2>2. CASE n \in 1 .. Size(h, t)
      BY <1>2, <1>3, <1>4, <2>2 DEF c
    <2> QED
      BY <1>3, <1>4, <2>1, <2>2
  <1>7. new = Append(old, i)
    BY <1>4, <1>5, <1>6, SeqEqual
  <1> QED
    BY <1>2, <1>7 DEF new, old, c, u

LEMMA RingPop ==
  ASSUME NEW b \in [Slot -> Item], NEW h \in Slot, NEW t \in Slot, h # t
  PROVE  Ring(b, h, t) # << >> /\ Ring(b, h + 1, t) = Tail(Ring(b, h, t))
  <1> DEFINE old == Ring(b, h, t)
             new == Ring(b, h + 1, t)
  <1>1. h + 1 \in 0 .. Count /\ h \in 0 .. Count /\ h \in Nat /\ t \in Nat
    BY CountAssumption DEF Slot
  <1>2. /\ Size(h, t) > 0 /\ Size(h + 1, t) = Size(h, t) - 1
        /\ \A n \in 1 .. Size(h, t) - 1 : Index(h + 1, n) = Index(h, n + 1)
    BY <1>1, CountAssumption DEF Size, Index, Slot
  <1>3. /\ old \in Seq(Item) /\ Len(old) = Size(h, t)
        /\ \A n \in 1 .. Size(h, t) : old[n] = b[Index(h, n)]
        /\ Size(h, t) \in Nat
    BY <1>1, RingIs
  <1>4. /\ new \in Seq(Item) /\ Len(new) = Size(h, t) - 1
        /\ \A n \in 1 .. Size(h, t) - 1 : new[n] = b[Index(h + 1, n)]
    BY <1>1, <1>2, RingIs
  <1> HIDE DEF new, old
  <1>5. /\ old # << >> /\ Tail(old) \in Seq(Item) /\ Len(Tail(old)) = Len(new)
        /\ \A n \in 1 .. Len(new) : Tail(old)[n] = old[n + 1]
    BY <1>2, <1>3, <1>4
  <1>6. \A n \in 1 .. Len(new) : new[n] = Tail(old)[n]
    BY <1>2, <1>3, <1>4, <1>5
  <1>7. new = Tail(old)
    BY <1>4, <1>5, <1>6, SeqEqual
  <1> QED
    BY <1>5, <1>7 DEF new, old

LEMMA RingWrap ==
  ASSUME NEW b \in [Slot -> Item], NEW t \in Slot
  PROVE  Ring(b, 0, t) = Ring(b, Count, t)
  <1>1. /\ Size(0, t) = Size(Count, t)
        /\ \A n \in 1 .. Size(0, t) : Index(0, n) = Index(Count, n)
    BY CountAssumption DEF Size, Index, Slot
  <1>2. 0 \in 0 .. Count /\ Count \in 0 .. Count
    BY CountAssumption
  <1>3. /\ Ring(b, 0, t) \in Seq(Item) /\ Ring(b, Count, t) \in Seq(Item)
        /\ Len(Ring(b, 0, t)) = Len(Ring(b, Count, t))
    BY <1>1, <1>2, RingIs
  <1>4. \A n \in 1 .. Len(Ring(b, 0, t)) : Ring(b, 0, t)[n] = Ring(b, Count, t)[n]
    BY <1>1, <1>2, RingIs
  <1> QED
    BY <1>3, <1>4, SeqEqual

-----------------------------------------------------------------------------
FifoStep == [Fifo!Next]_Contents

LEMMA PushPut ==
  ASSUME IInv, NEW i \in Item, PushQueue(i)
  PROVE  Fifo!Put(i)
  <1>1. /\ Contents' = Append(Contents, i) /\ Len(Contents) < Count - 1
    BY RingPush, RingIs, ContentsRing DEF IInv, TypeOK, PushQueue, IsQueueFull
  <1> QED
    BY <1>1 DEF Fifo!Put

LEMMA NextFifo ==
  ASSUME IInv, [Next]_vars
  PROVE  FifoStep
  <1>1. CASE InitializeQueue
    <2>1. Contents' = << >>
      BY <1>1, RingEmpty, ContentsRing, CountAssumption
      DEF IInv, TypeOK, InitializeQueue, Slot
    <2> QED
      BY <2>1 DEF FifoStep, Fifo!Next, Fifo!Clear
  <1>2. ASSUME NEW i \in Item, PushQueue(i) PROVE FifoStep
    BY <1>2, PushPut DEF FifoStep, Fifo!Next
  <1>3. CASE PopAdvance
    <2>1. head \in Slot /\ head # tail
      BY <1>3, CountAssumption DEF IInv, TypeOK, PopInProgress, PopAdvance, Slot
    <2>2. Contents # << >> /\ Contents' = Tail(Contents)
      BY <1>3, <2>1, RingPop, ContentsRing DEF IInv, TypeOK, PopAdvance
    <2> QED
      BY <2>2 DEF FifoStep, Fifo!Next, Fifo!Take
  <1>4. CASE PopWrap
    <2>1. Contents' = Contents
      BY <1>4, RingWrap, ContentsRing DEF IInv, TypeOK, PopInProgress, PopWrap
    <2> QED
      BY <2>1 DEF FifoStep
  <1>5. CASE PopCheck \/ PopCopy \/ UNCHANGED vars
    <2>1. Contents' = Contents
      BY <1>5, ContentsRing DEF PopCheck, PopCopy, vars
    <2> QED
      BY <2>1 DEF FifoStep
  <1> QED
    BY <1>1, <1>2, <1>3, <1>4, <1>5 DEF Next, PopQueue

(***************************************************************************)
(* A ring of any size is a bounded fifo of Count - 1 items, wherever the   *)
(* pushes fall between the accesses of PopQueue, and every push that is    *)
(* accepted appends the item it was given.                                 *)
(***************************************************************************)
THEOREM RingIsFifo == Spec => ImplementsFifo
  <1>1. Init => Fifo!Init
    BY RingEmpty, ContentsRing, CountAssumption DEF Init, Slot, Fifo!Init
  <1>2. IInv /\ [Next]_vars => [Fifo!Next]_Contents
    BY NextFifo DEF FifoStep
  <1>3. IInv => [\A i \in Item : PushQueue(i) => Fifo!Put(i)]_vars
    BY PushPut
  <1> QED
    BY <1>1, <1>2, <1>3, InitIInv, NextIInv, PTL
    DEF Spec, ImplementsFifo, Fifo!Spec
=============================================================================
