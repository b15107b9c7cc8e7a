--------------------------- MODULE Device_proofs ---------------------------
(***************************************************************************)
(* Proofs about the device framework, for any tasks, slots, names and      *)
(* semaphores.  A device may be closed while any number of calls have      *)
(* passed its tests, are in its driver or wait for its semaphore           *)
(* ("closeLate").  Left out are the legal calls of Allowed that break what *)
(* is proved: two tasks in OpenDevice for one device, a second OpenDevice  *)
(* without a registration, two tasks in CloseDevice for one device, and a  *)
(* deletion of the semaphore that overtakes a call on its way to it.       *)
(***************************************************************************)
EXTENDS Device, WellFoundedInduction, TLAPS

Exclusive == Opening \cup Closing
Holder(t) == pc[t] \in {"call", "callPost", "release", "closeDel"}

PlaceOK ==
  \A t \in Task : /\ pc[t] = "user" => dev[t] = None
                  /\ pc[t] # "user" => dev[t] \in Slot

(* At most one task opens or closes a device. *)
Alone ==
  \A t, u \in Task : (pc[t] \in Exclusive /\ pc[u] \in Exclusive /\ dev[t] = dev[u])
                       => t = u

(* What holds of the slot while a task opens it, *)
OpenOK ==
  \A t \in Task :
    /\ pc[t] \in Opening => /\ MagicNumber[dev[t]] = "valid" /\ ~driver[dev[t]]
                            /\ Opened[dev[t]] <=> pc[t] = "openDriver"
    /\ pc[t] = "openSem" => DevSem[dev[t]] = None
    /\ pc[t] \in {"openMark", "openDriver"} => DevSem[dev[t]] # None

(* ... closes it, *)
CloseOK ==
  \A t \in Task :
    /\ pc[t] \in Closing => /\ DevSem[dev[t]] # None
                            /\ Opened[dev[t]] <=> pc[t] = "closeMark"
    /\ pc[t] = "closeDel" => ~driver[dev[t]]

(* ... and calls its driver: whoever has passed the test of the open flag  *)
(* finds the driver open, or its semaphore in the hands of CloseDevice.    *)
Dying(d) == \E u \in Task : dev[u] = d /\ pc[u] = "closeDel"

CallOf(t) ==
  /\ pc[t] \in Calling => DevSem[dev[t]] # None
  /\ pc[t] \in {"call", "callPost"} => driver[dev[t]]
  /\ pc[t] \in {"callPend", "callWait"} => driver[dev[t]] \/ Dying(dev[t])
  /\ pc[t] = "callWait" => t \in waiting[DevSem[dev[t]]]

CallOK == \A t \in Task : CallOf(t)

(* A slot has a semaphore of its own from OpenSem to CloseDel. *)
SlotOK ==
  \A d \in Slot :
    /\ Opened[d] => DevSem[d] # None /\ MagicNumber[d] = "valid"
    /\ driver[d] => DevSem[d] # None
    /\ DevSem[d] # None =>
         /\ cnt[DevSem[d]] # None
         /\ \A e \in Slot : DevSem[e] = DevSem[d] => e = d
         /\ \/ Opened[d]
            \/ \E t \in Task : dev[t] = d /\ pc[t] \in {"openMark"} \cup Closing

SemOK ==
  \A s \in Sem :
    /\ cnt[s] # None => \E d \in Slot : DevSem[d] = s
    /\ \A t \in waiting[s] : /\ pc[t] \in {"callWait", "closeWait"}
                             /\ DevSem[dev[t]] = s

(* The semaphore is a lock: one task is past it, and then it is taken. *)
HoldOK ==
  \A t \in Task : Holder(t) => /\ cnt[DevSem[dev[t]]] = 0
                               /\ \A u \in Task : Holder(u) /\ dev[u] = dev[t] => u = t

IInv == /\ TypeOK /\ PlaceOK /\ Alone /\ OpenOK /\ CloseOK /\ CallOK /\ SlotOK
        /\ SemOK /\ HoldOK

-----------------------------------------------------------------------------
(* First returns the least index, so a member of the set. *)
LEMMA FirstIn ==
  ASSUME NEW S \in SUBSET Slot, S # {}
  PROVE  First(S) \in S
  <1>1. S \subseteq Nat
    BY DeviceAssumption
  <1>2. PICK d \in S : \A e \in S : <<e, d>> \notin OpToRel(<, Nat)
    BY <1>1, WFMin, NatLessThanWellFounded
  <1>3. \A e \in S : d <= e
    <2> SUFFICES ASSUME NEW e \in S PROVE d <= e
      OBVIOUS
    <2>1. d \in Nat /\ e \in Nat /\ ~(e < d)
      BY <1>1, <1>2 DEF OpToRel
    <2> QED
      BY <2>1
  <1> QED
    BY <1>3 DEF First

(* Nobody is in a call while the device is opened. *)
LEMMA NoCallWhileOpened ==
  ASSUME IInv, NEW t \in Task, pc[t] \in Opening,
         NEW u \in Task, pc[u] \in Calling
  PROVE  dev[u] # dev[t]
  <1> SUFFICES ASSUME dev[u] = dev[t] PROVE FALSE
    OBVIOUS
  <1>1. ~driver[dev[t]]
    BY DEF IInv, OpenOK
  <1>2. PICK w \in Task : dev[w] = dev[t] /\ pc[w] = "closeDel"
    BY <1>1 DEF IInv, CallOK, CallOf, Calling, Dying
  <1>3. w = t
    BY <1>2 DEF IInv, Alone, Exclusive, Closing
  <1> QED
    BY <1>2, <1>3 DEF Opening

(* A step that is not of u, and leaves to u what its call is about. *)
LEMMA OtherCall ==
  ASSUME CallOK, NEW u \in Task, pc'[u] = pc[u], dev'[u] = dev[u],
         pc[u] \in Calling =>
           /\ DevSem'[dev[u]] = DevSem[dev[u]] /\ driver'[dev[u]] = driver[dev[u]]
           /\ u \in waiting[DevSem[dev[u]]] => u \in waiting'[DevSem[dev[u]]]
           /\ \A t \in Task : pc[t] = "closeDel" /\ dev[t] = dev[u] =>
                                pc'[t] = "closeDel" /\ dev'[t] = dev[t]
  PROVE  CallOf(u)'
  <1>1. CallOf(u)
    BY DEF CallOK
  <1>2. pc[u] \in Calling /\ Dying(dev[u]) => Dying(dev[u])'
    BY DEF Dying
  <1> QED
    BY <1>1, <1>2 DEF CallOf, Calling

LEMMA InitIInv == Init => IInv
  BY DeviceAssumption
  DEF Init, IInv, TypeOK, PlaceOK, Alone, OpenOK, CloseOK, CallOK, CallOf, Dying, SlotOK, SemOK,
      HoldOK, Exclusive, Opening, Closing, Calling, Holder

LEMMA RegisterStep ==
  ASSUME IInv, NEW n \in Name, RegisterDevice(n) \/ UnregisterDevice(n)
  PROVE  IInv'
  <1>1. PICK d \in Slot :
          /\ Quiet /\ DevSem[d] = None
          /\ MagicNumber' \in {[MagicNumber EXCEPT ![d] = "valid"],
                               [MagicNumber EXCEPT ![d] = "none"]}
          /\ DevName' \in {[DevName EXCEPT ![d] = n], [DevName EXCEPT ![d] = None]}
          /\ Opened' = [Opened EXCEPT ![d] = FALSE]
          /\ driver' = [driver EXCEPT ![d] = FALSE]
          /\ DevSem' = [DevSem EXCEPT ![d] = None]
          /\ UNCHANGED <<semVars, pc, dev>>
    <2>1. \A d \in Slot : Quiet /\ ~Opened[d] => DevSem[d] = None /\ ~driver[d]
      BY DEF IInv, SlotOK, Quiet, Closing
    <2>2. ASSUME RegisterDevice(n)
          PROVE  LET d == First({e \in Slot : MagicNumber[e] # "valid"})
                 IN  d \in Slot /\ MagicNumber[d] # "valid"
      <3> DEFINE free == {e \in Slot : MagicNumber[e] # "valid"}
      <3>1. free \in SUBSET Slot /\ free # {}
        BY <2>2 DEF RegisterDevice
      <3>2. First(free) \in free
        BY <3>1, FirstIn
      <3> QED
        BY <3>2
    <2>3. CASE RegisterDevice(n)
      <3> DEFINE d == First({e \in Slot : MagicNumber[e] # "valid"})
      <3>1. d \in Slot /\ ~Opened[d]
        BY <2>3, <2>2 DEF IInv, SlotOK
      <3>2. DevSem[d] = None
        BY <2>3, <3>1, <2>1 DEF RegisterDevice
      <3> QED
        BY <2>3, <3>1, <3>2 DEF RegisterDevice
    <2>4. CASE UnregisterDevice(n)
      <3>1. PICK d \in Registered(n) : UnregisterDevice(n)!(d)
        BY <2>4 DEF UnregisterDevice
      <3>2. d \in Slot /\ DevSem[d] = None /\ ~driver[d]
        BY <3>1, <2>1 DEF Registered
      <3>3. Opened = [Opened EXCEPT ![d] = FALSE] /\ driver = [driver EXCEPT ![d] = FALSE]
        BY <3>1, <3>2 DEF IInv, TypeOK
      <3> QED
        BY <3>1, <3>2, <3>3
    <2> QED
      BY <2>3, <2>4
  <1>2. TypeOK'
    BY <1>1 DEF IInv, TypeOK, semVars
  <1>3. PlaceOK' /\ Alone' /\ OpenOK' /\ CloseOK' /\ HoldOK'
    BY <1>1 DEF IInv, PlaceOK, Alone, OpenOK, CloseOK, HoldOK, Quiet,
                Exclusive, Opening, Closing, Calling, Holder
  <1>c. CallOK'
    BY <1>1 DEF CallOK, CallOf, Calling, Quiet
  <1>4. SlotOK'
    BY <1>1, DeviceAssumption DEF IInv, TypeOK, SlotOK, semVars, Quiet, Closing
  <1>5. SemOK'
    BY <1>1, DeviceAssumption DEF IInv, TypeOK, SemOK, semVars, Quiet
  <1> QED
    BY <1>2, <1>3, <1>c, <1>4, <1>5 DEF IInv

LEMMA OpenFindStep ==
  ASSUME IInv, Allowed \subseteq {"closeLate"}, NEW t \in Task, NEW n \in Name, OpenFind(t, n)
  PROVE  IInv'
  <1> DEFINE d == First({e \in Slot : DevName[e] = n})
  <1>1. d \in Slot
    <2>1. {e \in Slot : DevName[e] = n} \in SUBSET Slot
      OBVIOUS
    <2>2. {e \in Slot : DevName[e] = n} # {}
      BY DEF OpenFind
    <2> QED
      BY <2>1, <2>2, FirstIn
  <1> HIDE DEF d
  <1>2. /\ pc[t] = "user" /\ ~Opened[d] /\ MagicNumber[d] = "valid"
        /\ \A u \in Task \ {t} : dev[u] = d => pc[u] \notin Exclusive
        /\ pc' = [pc EXCEPT ![t] = "openSem"] /\ dev' = [dev EXCEPT ![t] = d]
        /\ UNCHANGED <<devVars, driver, semVars>>
    BY DEF OpenFind, At, Others, Enter, Exclusive, d
  <1>3. DevSem[d] = None /\ ~driver[d]
    BY <1>1, <1>2 DEF IInv, SlotOK, Exclusive, Opening, Closing
  <1> USE DeviceAssumption, <1>1, <1>2, <1>3
          DEF IInv, devVars, semVars, Exclusive, Opening, Closing, Calling, Holder
  <1>4. TypeOK' /\ PlaceOK' /\ Alone'
    BY DEF TypeOK, PlaceOK, Alone
  <1>5. OpenOK' /\ CloseOK' /\ HoldOK'
    BY DEF TypeOK, OpenOK, CloseOK, CallOK, HoldOK
  <1>c. CallOK'
    <2>1. ASSUME NEW u \in Task \ {t} PROVE CallOf(u)'
      BY OtherCall DEF TypeOK, PlaceOK
    <2>2. CallOf(t)'
      BY DEF TypeOK, PlaceOK, CallOf
    <2> QED
      BY <2>1, <2>2 DEF CallOK
  <1>6. SlotOK'
    BY DEF TypeOK, SlotOK
  <1>7. SemOK'
    BY DEF TypeOK, SemOK
  <1> QED
    BY <1>4, <1>5, <1>c, <1>6, <1>7

LEMMA OpenSemStep ==
  ASSUME IInv, Allowed \subseteq {"closeLate"}, NEW t \in Task, OpenSem(t)
  PROVE  IInv'
  <1> USE DeviceAssumption
          DEF IInv, OpenSem, At, Goto, Enter, Return, UnitsOf, devVars, semVars, Exclusive, Opening, Closing, Calling,
              Holder
  <1>4. TypeOK' /\ PlaceOK' /\ Alone'
    BY DEF TypeOK, PlaceOK, Alone
  <1>5. OpenOK' /\ CloseOK'
    BY DEF TypeOK, PlaceOK, Alone, OpenOK, CloseOK, CallOK, SlotOK
  <1>c. CallOK'
    <2>1. ASSUME NEW u \in Task \ {t} PROVE CallOf(u)'
      BY OtherCall, NoCallWhileOpened DEF TypeOK, PlaceOK
    <2>2. CallOf(t)'
      BY DEF TypeOK, PlaceOK, CallOf
    <2> QED
      BY <2>1, <2>2 DEF CallOK
  <1>6. SlotOK'
    BY DEF TypeOK, PlaceOK, Alone, OpenOK, CloseOK, SlotOK
  <1>7. SemOK'
    <2>1. PICK s \in Sem :
            /\ cnt[s] = None /\ cnt' = [cnt EXCEPT ![s] = 1]
            /\ DevSem' = [DevSem EXCEPT ![dev[t]] = s]
            /\ pc' = [pc EXCEPT ![t] = "openMark"] /\ dev' = dev /\ waiting' = waiting
      OBVIOUS
    <2>2. DevSem[dev[t]] = None /\ dev[t] \in Slot /\ pc[t] = "openSem"
      BY DEF PlaceOK, OpenOK
    <2>3. \A r \in Sem : \A u \in waiting[r] : dev[u] # dev[t] /\ u # t /\ u \in Task
      BY <2>2 DEF TypeOK, SemOK
    <2>4. ASSUME NEW r \in Sem, cnt'[r] # None PROVE \E d \in Slot : DevSem'[d] = r
      <3>1. CASE r = s
        BY <2>1, <2>2, <3>1 DEF TypeOK
      <3>2. CASE r # s
        BY <2>1, <2>2, <2>4, <3>2 DEF TypeOK, SemOK
      <3> QED
        BY <3>1, <3>2
    <2>5. ASSUME NEW r \in Sem, NEW u \in waiting[r]
          PROVE  pc'[u] \in {"callWait", "closeWait"} /\ DevSem'[dev'[u]] = r
      BY <2>1, <2>2, <2>3 DEF TypeOK, SemOK, PlaceOK
    <2> QED
      BY <2>1, <2>4, <2>5 DEF SemOK
  <1>8. HoldOK'
    BY DEF TypeOK, PlaceOK, OpenOK, CloseOK, CallOK, CallOf, SlotOK, HoldOK
  <1> QED
    BY <1>4, <1>5, <1>c, <1>6, <1>7, <1>8

LEMMA OpenMarkStep ==
  ASSUME IInv, Allowed \subseteq {"closeLate"}, NEW t \in Task, OpenMark(t)
  PROVE  IInv'
  <1> USE DeviceAssumption
          DEF IInv, OpenMark, At, Goto, Enter, Return, devVars, semVars, Exclusive, Opening, Closing, Calling,
              Holder
  <1>4. TypeOK' /\ PlaceOK' /\ Alone'
    BY DEF TypeOK, PlaceOK, Alone
  <1>5. OpenOK' /\ CloseOK'
    BY DEF TypeOK, PlaceOK, Alone, OpenOK, CloseOK, CallOK, SlotOK
  <1>c. CallOK'
    <2>1. ASSUME NEW u \in Task \ {t} PROVE CallOf(u)'
      BY OtherCall DEF TypeOK, PlaceOK
    <2>2. CallOf(t)'
      BY DEF TypeOK, PlaceOK, CallOf
    <2> QED
      BY <2>1, <2>2 DEF CallOK
  <1>6. SlotOK'
    BY DEF TypeOK, PlaceOK, Alone, OpenOK, CloseOK, SlotOK
  <1>7. SemOK'
    BY DEF TypeOK, PlaceOK, OpenOK, CloseOK, CallOK, SlotOK, SemOK
  <1>8. HoldOK'
    BY DEF TypeOK, PlaceOK, OpenOK, CloseOK, CallOK, SlotOK, HoldOK
  <1> QED
    BY <1>4, <1>5, <1>c, <1>6, <1>7, <1>8

LEMMA OpenDriverStep ==
  ASSUME IInv, Allowed \subseteq {"closeLate"}, NEW t \in Task, OpenDriver(t)
  PROVE  IInv'
  <1> DEFINE d == dev[t]
  <1>1. /\ pc[t] = "openDriver" /\ d \in Slot /\ Opened[d] /\ DevSem[d] # None
        /\ \A u \in Task \ {t} : dev[u] = d => pc[u] \notin Exclusive
        /\ MagicNumber[d] = "valid" /\ ~driver[d]
    BY DEF IInv, PlaceOK, Alone, OpenOK, OpenDriver, At, Exclusive, Opening
  <1> HIDE DEF d
  <1>2. CASE /\ driver' = [driver EXCEPT ![d] = TRUE]
             /\ pc' = [pc EXCEPT ![t] = "user"] /\ dev' = [dev EXCEPT ![t] = None]
    <2> USE DeviceAssumption, <1>1, <1>2
            DEF IInv, OpenDriver, devVars, semVars, Exclusive, Opening, Closing,
                Calling, Holder
    <2>1. TypeOK' /\ PlaceOK' /\ Alone'
      BY DEF TypeOK, PlaceOK, Alone
    <2>2. OpenOK' /\ CloseOK'
      BY DEF TypeOK, PlaceOK, Alone, OpenOK, CloseOK, CallOK
    <2>c. CallOK'
      <3>0. \A u \in Task : pc[u] \in Calling => dev[u] # d /\ dev[u] \in Slot
        BY NoCallWhileOpened DEF d, PlaceOK
      <3>1. ASSUME NEW u \in Task \ {t} PROVE CallOf(u)'
        <4>1. \A v \in Task : pc[v] = "closeDel" => pc'[v] = "closeDel" /\ dev'[v] = dev[v]
          BY DEF TypeOK
        <4> QED
          BY <3>0, <3>1, <4>1, OtherCall DEF TypeOK
      <3>2. CallOf(t)'
        BY DEF TypeOK, PlaceOK, CallOf
      <3> QED
        BY <3>1, <3>2 DEF CallOK
    <2>3. SlotOK' /\ SemOK' /\ HoldOK'
      BY DEF TypeOK, PlaceOK, SlotOK, SemOK, HoldOK
    <2> QED
      BY <2>1, <2>2, <2>c, <2>3
  <1>3. CASE driver' = driver /\ pc' = [pc EXCEPT ![t] = "closeMark"] /\ dev' = dev
    <2> USE DeviceAssumption, <1>1, <1>3
            DEF IInv, OpenDriver, devVars, semVars, Exclusive, Opening, Closing,
                Calling, Holder
    <2>1. TypeOK' /\ PlaceOK' /\ Alone'
      BY DEF TypeOK, PlaceOK, Alone
    <2>2. OpenOK' /\ CloseOK'
      BY DEF TypeOK, PlaceOK, Alone, OpenOK, CloseOK, CallOK, d
    <2>c. CallOK'
      <3>1. ASSUME NEW u \in Task \ {t} PROVE CallOf(u)'
        BY OtherCall DEF TypeOK, PlaceOK
      <3>2. CallOf(t)'
        BY DEF TypeOK, PlaceOK, CallOf
      <3> QED
        BY <3>1, <3>2 DEF CallOK
    <2>3. SlotOK' /\ SemOK' /\ HoldOK'
      BY DEF TypeOK, PlaceOK, SlotOK, SemOK, HoldOK, d
    <2> QED
      BY <2>1, <2>2, <2>c, <2>3
  <1> QED
    BY <1>2, <1>3 DEF OpenDriver, Goto, Return, Enter, d

LEMMA CallCheckStep ==
  ASSUME IInv, Allowed \subseteq {"closeLate"}, NEW t \in Task, NEW d \in Slot, CallCheck(t, d)
  PROVE  IInv'
  <1> USE DeviceAssumption
          DEF IInv, CallCheck, At, Goto, Enter, Return, Others, devVars, semVars, Exclusive, Opening, Closing, Calling,
              Holder
  <1>4. TypeOK' /\ PlaceOK' /\ Alone'
    BY DEF TypeOK, PlaceOK, Alone
  <1>5. OpenOK' /\ CloseOK'
    BY DEF TypeOK, PlaceOK, Alone, OpenOK, CloseOK, CallOK, SlotOK
  <1>c. CallOK'
    <2>1. ASSUME NEW u \in Task \ {t} PROVE CallOf(u)'
      BY OtherCall DEF TypeOK, PlaceOK
    <2>2. CallOf(t)'
      BY DEF TypeOK, PlaceOK, CallOf, SlotOK
    <2> QED
      BY <2>1, <2>2 DEF CallOK
  <1>6. SlotOK'
    BY DEF TypeOK, PlaceOK, Alone, OpenOK, CloseOK, SlotOK
  <1>7. SemOK'
    BY DEF TypeOK, PlaceOK, OpenOK, CloseOK, CallOK, SlotOK, SemOK
  <1>8. HoldOK'
    BY DEF TypeOK, PlaceOK, OpenOK, CloseOK, CallOK, SlotOK, HoldOK
  <1> QED
    BY <1>4, <1>5, <1>c, <1>6, <1>7, <1>8

(* What a pend on the semaphore of a device does: it waits for the holder, *)
(* or becomes the holder.                                                  *)
LEMMA PendEffect ==
  ASSUME IInv, NEW t \in Task, NEW d \in Slot, NEW go, NEW wait,
         DevSem[d] # None, Pend(t, d, go, wait)
  PROVE  LET s == DevSem[d]
         IN  /\ s \in Sem /\ cnt[s] \in {0, 1} /\ dev' = dev
             /\ \/ /\ pc' = [pc EXCEPT ![t] = go]
                   /\ cnt[s] = 1 /\ cnt' = [cnt EXCEPT ![s] = 0]
                   /\ waiting' = waiting
                \/ /\ pc' = [pc EXCEPT ![t] = wait]
                   /\ cnt' = cnt
                   /\ waiting' = [waiting EXCEPT ![s] = @ \cup {t}]
  <1>1. DevSem[d] \in Sem /\ cnt[DevSem[d]] \in {0, 1}
    BY DEF IInv, TypeOK, SlotOK
  <1> QED
    BY <1>1, DeviceAssumption DEF Pend, Goto, IInv, TypeOK

LEMMA CallPendStep ==
  ASSUME IInv, Allowed \subseteq {"closeLate"}, NEW t \in Task, CallPend(t)
  PROVE  IInv'
  <1> DEFINE d == dev[t]
             s == DevSem[d]
  <1>1. /\ pc[t] = "callPend" /\ d \in Slot /\ s # None
        /\ Pend(t, d, "call", "callWait") /\ UNCHANGED <<devVars, driver>>
    BY DEF IInv, PlaceOK, CallOK, CallOf, CloseOK, CallPend, At, Calling, Closing
  <1>2. s \in Sem /\ cnt[s] \in {0, 1} /\ dev' = dev
    BY <1>1, PendEffect
  <1>3. \A e \in Slot : DevSem[e] = s => e = d
    BY <1>1 DEF IInv, SlotOK
  <1>4. CASE /\ pc' = [pc EXCEPT ![t] = "call"] /\ cnt[s] = 1
             /\ cnt' = [cnt EXCEPT ![s] = 0] /\ waiting' = waiting
    <2>1. \A u \in Task : Holder(u) => dev[u] # d
      BY <1>1, <1>2, <1>4 DEF IInv, HoldOK, Holder
    <2> HIDE DEF s
    <2> USE DeviceAssumption, <1>1, <1>2, <1>3, <1>4
            DEF IInv, devVars, Exclusive, Opening, Closing, Calling
    <2>2. TypeOK' /\ PlaceOK' /\ Alone'
      BY DEF TypeOK, PlaceOK, Alone
    <2>3. OpenOK' /\ CloseOK'
      BY DEF TypeOK, PlaceOK, OpenOK, CloseOK, CallOK, s
    <2>c. CallOK'
      <3>1. ASSUME NEW u \in Task \ {t} PROVE CallOf(u)'
        BY OtherCall DEF TypeOK, PlaceOK
      <3>2. driver[d]
        BY <2>1 DEF CallOK, CallOf, Dying, Holder
      <3>3. CallOf(t)'
        BY <3>2 DEF TypeOK, CallOf, s
      <3> QED
        BY <3>1, <3>3 DEF CallOK
    <2>4. SlotOK' /\ SemOK'
      BY DEF TypeOK, PlaceOK, SlotOK, SemOK, s
    <2>5. HoldOK'
      BY <2>1 DEF TypeOK, PlaceOK, SlotOK, CloseOK, CallOK, HoldOK, Holder, s
    <2> QED
      BY <2>2, <2>3, <2>c, <2>4, <2>5
  <1>5. CASE /\ pc' = [pc EXCEPT ![t] = "callWait"] /\ cnt' = cnt
             /\ waiting' = [waiting EXCEPT ![s] = @ \cup {t}]
    <2> HIDE DEF s
    <2> USE DeviceAssumption, <1>1, <1>2, <1>3, <1>5
            DEF IInv, devVars, Exclusive, Opening, Closing, Calling
    <2>2. TypeOK' /\ PlaceOK' /\ Alone'
      BY DEF TypeOK, PlaceOK, Alone
    <2>3. OpenOK' /\ CloseOK'
      BY DEF TypeOK, PlaceOK, OpenOK, CloseOK, CallOK, s
    <2>c. CallOK'
      <3>1. ASSUME NEW u \in Task \ {t} PROVE CallOf(u)'
        BY OtherCall DEF TypeOK, PlaceOK
      <3>2. driver[d] \/ Dying(d)'
        BY DEF TypeOK, CallOK, CallOf, Dying
      <3>3. CallOf(t)'
        BY <3>2 DEF TypeOK, CallOf, s
      <3> QED
        BY <3>1, <3>3 DEF CallOK
    <2>4. SlotOK' /\ SemOK'
      BY DEF TypeOK, PlaceOK, SlotOK, SemOK, s
    <2>5. HoldOK'
      BY DEF TypeOK, PlaceOK, HoldOK, Holder
    <2> QED
      BY <2>2, <2>3, <2>c, <2>4, <2>5
  <1> QED
    BY <1>1, <1>4, <1>5, PendEffect

LEMMA DriverCallStep ==
  ASSUME IInv, Allowed \subseteq {"closeLate"}, NEW t \in Task, DriverCall(t)
  PROVE  IInv'
  <1> USE DeviceAssumption
          DEF IInv, DriverCall, At, Goto, Enter, Return, devVars, semVars, Exclusive, Opening, Closing, Calling,
              Holder
  <1>4. TypeOK' /\ PlaceOK' /\ Alone'
    BY DEF TypeOK, PlaceOK, Alone
  <1>5. OpenOK' /\ CloseOK'
    BY DEF TypeOK, PlaceOK, Alone, OpenOK, CloseOK, CallOK, SlotOK
  <1>c. CallOK'
    <2>1. ASSUME NEW u \in Task \ {t} PROVE CallOf(u)'
      BY OtherCall DEF TypeOK, PlaceOK
    <2>2. CallOf(t)'
      BY DEF TypeOK, PlaceOK, CallOf, CallOK
    <2> QED
      BY <2>1, <2>2 DEF CallOK
  <1>6. SlotOK'
    BY DEF TypeOK, PlaceOK, Alone, OpenOK, CloseOK, SlotOK
  <1>7. SemOK'
    BY DEF TypeOK, PlaceOK, OpenOK, CloseOK, CallOK, SlotOK, SemOK
  <1>8. HoldOK'
    BY DEF TypeOK, PlaceOK, OpenOK, CloseOK, CallOK, SlotOK, HoldOK
  <1> QED
    BY <1>4, <1>5, <1>c, <1>6, <1>7, <1>8

LEMMA CallPostStep ==
  ASSUME IInv, Allowed \subseteq {"closeLate"}, NEW t \in Task, CallPost(t)
  PROVE  IInv'
  <1> DEFINE d == dev[t]
             s == DevSem[d]
  <1>1. /\ pc[t] = "callPost" /\ d \in Slot /\ s \in Sem /\ cnt[s] = 0
        /\ driver[d] /\ UNCHANGED <<devVars, driver>>
        /\ \A u \in Task : Holder(u) /\ dev[u] = d => u = t
        /\ \A e \in Slot : DevSem[e] = s => e = d
    BY DEF IInv, TypeOK, PlaceOK, CallOK, CallOf, SlotOK, HoldOK, Holder, CallPost, At, Calling
  <1>2. s # None /\ 0 # None
    BY <1>1, DeviceAssumption
  <1>3. CASE /\ pc' = [pc EXCEPT ![t] = "user"] /\ dev' = [dev EXCEPT ![t] = None]
             /\ cnt' = [cnt EXCEPT ![s] = 1] /\ waiting' = waiting
    <2> HIDE DEF s
    <2> USE DeviceAssumption, <1>1, <1>2, <1>3
            DEF IInv, devVars, Exclusive, Opening, Closing, Calling
    <2>2. TypeOK' /\ PlaceOK' /\ Alone'
      BY DEF TypeOK, PlaceOK, Alone
    <2>3. OpenOK' /\ CloseOK'
      BY DEF TypeOK, PlaceOK, OpenOK, CloseOK, CallOK
    <2>c. CallOK'
      <3>1. ASSUME NEW u \in Task \ {t} PROVE CallOf(u)'
        BY OtherCall DEF TypeOK, PlaceOK
      <3>2. CallOf(t)'
        BY DEF TypeOK, PlaceOK, CallOf
      <3> QED
        BY <3>1, <3>2 DEF CallOK
    <2>4. SlotOK' /\ SemOK'
      BY DEF TypeOK, PlaceOK, SlotOK, SemOK, s
    <2>5. HoldOK'
      <3>1. \A v \in Task : Holder(v)' <=> v # t /\ Holder(v)
        BY DEF TypeOK, Holder
      <3>2. \A v \in Task : v # t /\ Holder(v) => /\ dev'[v] = dev[v] /\ dev[v] # d
                                                /\ dev[v] \in Slot
        BY DEF TypeOK, PlaceOK, Holder
      <3>3. \A v \in Task : v # t /\ Holder(v) => /\ DevSem'[dev[v]] = DevSem[dev[v]]
                                                /\ DevSem[dev[v]] # s
        BY <3>2
      <3>4. \A v \in Task : v # t /\ Holder(v) => cnt'[DevSem[dev[v]]] = 0
        BY <3>3 DEF TypeOK, HoldOK
      <3> QED
        BY <3>1, <3>2, <3>3, <3>4 DEF HoldOK
    <2> QED
      BY <2>2, <2>3, <2>c, <2>4, <2>5
  <1>4. ASSUME NEW u \in waiting[s],
               /\ waiting' = [waiting EXCEPT ![s] = @ \ {u}]
               /\ pc' = [pc EXCEPT ![t] = "user", ![u] = Granted(u)]
               /\ dev' = [dev EXCEPT ![t] = None]
               /\ cnt' = cnt
        PROVE  IInv'
    <2>1. /\ u \in Task /\ u # t /\ dev[u] = d
          /\ \/ pc[u] = "callWait" /\ Granted(u) = "call"
             \/ pc[u] = "closeWait" /\ Granted(u) = "release"
      <3>1. /\ u \in Task /\ pc[u] \in {"callWait", "closeWait"}
            /\ DevSem[dev[u]] = s
        BY <1>1 DEF IInv, TypeOK, SemOK
      <3>2. dev[u] \in Slot
        BY <3>1 DEF IInv, PlaceOK
      <3> QED
        BY <1>1, <3>1, <3>2 DEF Granted
    <2>6. \A v \in Task : /\ pc'[v] = IF v = t THEN "user"
                                      ELSE IF v = u THEN Granted(u) ELSE pc[v]
                          /\ dev'[v] = IF v = t THEN None ELSE dev[v]
      BY <1>4, <2>1 DEF IInv, TypeOK
    <2> HIDE DEF s
    <2> USE DeviceAssumption, <1>1, <1>2, <2>1, <2>6
            DEF IInv, devVars, Exclusive, Opening, Closing, Calling
    <2>2. TypeOK'
      BY <1>4 DEF TypeOK
    <2>3. PlaceOK' /\ Alone' /\ OpenOK' /\ CloseOK'
      BY DEF TypeOK, PlaceOK, Alone, OpenOK, CloseOK, CallOK
    <2>c. CallOK'
      <3>1. ASSUME NEW v \in Task \ {t, u} PROVE CallOf(v)'
        BY <1>4, OtherCall DEF TypeOK, PlaceOK
      <3>2. CallOf(t)'
        BY DEF CallOf
      <3>3. CallOf(u)'
        BY DEF CallOf, s
      <3> QED
        BY <3>1, <3>2, <3>3 DEF CallOK
    <2>4. SlotOK' /\ SemOK'
      BY <1>4 DEF TypeOK, PlaceOK, SlotOK, SemOK, s
    <2>5. HoldOK'
      <3>1. \A v \in Task : Holder(v)' <=> v = u \/ (v # t /\ Holder(v))
        BY DEF Holder
      <3>2. \A v \in Task : v # t /\ Holder(v) => dev[v] # d
        OBVIOUS
      <3>3. DevSem' = DevSem /\ cnt' = cnt /\ cnt[DevSem[dev[u]]] = 0
        BY <1>4 DEF s
      <3> QED
        BY <3>1, <3>2, <3>3 DEF HoldOK
    <2> QED
      BY <2>2, <2>3, <2>c, <2>4, <2>5
  <1> QED
    BY <1>1, <1>2, <1>3, <1>4 DEF CallPost, Return, Enter

LEMMA CloseCheckStep ==
  ASSUME IInv, Allowed \subseteq {"closeLate"}, NEW t \in Task, NEW d \in Slot, CloseCheck(t, d)
  PROVE  IInv'
  <1> USE DeviceAssumption
          DEF IInv, CloseCheck, At, Goto, Enter, Return, Others, devVars, semVars, Exclusive, Opening, Closing, Calling,
              Holder
  <1>4. TypeOK' /\ PlaceOK' /\ Alone'
    BY DEF TypeOK, PlaceOK, Alone, OpenOK
  <1>5. OpenOK' /\ CloseOK'
    BY DEF TypeOK, PlaceOK, Alone, OpenOK, CloseOK, CallOK, SlotOK
  <1>c. CallOK'
    <2>1. ASSUME NEW u \in Task \ {t} PROVE CallOf(u)'
      BY OtherCall DEF TypeOK, PlaceOK
    <2>2. CallOf(t)'
      BY DEF TypeOK, PlaceOK, CallOf
    <2> QED
      BY <2>1, <2>2 DEF CallOK
  <1>6. SlotOK'
    BY DEF TypeOK, PlaceOK, Alone, OpenOK, CloseOK, SlotOK
  <1>7. SemOK'
    BY DEF TypeOK, PlaceOK, OpenOK, CloseOK, CallOK, SlotOK, SemOK
  <1>8. HoldOK'
    BY DEF TypeOK, PlaceOK, OpenOK, CloseOK, CallOK, SlotOK, HoldOK
  <1> QED
    BY <1>4, <1>5, <1>c, <1>6, <1>7, <1>8

LEMMA CloseMarkStep ==
  ASSUME IInv, Allowed \subseteq {"closeLate"}, NEW t \in Task, CloseMark(t)
  PROVE  IInv'
  <1> USE DeviceAssumption
          DEF IInv, CloseMark, At, Goto, Enter, Return, Others, devVars, semVars, Exclusive, Opening, Closing, Calling,
              Holder
  <1>4. TypeOK' /\ PlaceOK' /\ Alone'
    BY DEF TypeOK, PlaceOK, Alone
  <1>5. OpenOK' /\ CloseOK'
    BY DEF TypeOK, PlaceOK, Alone, OpenOK, CloseOK, CallOK, SlotOK
  <1>c. CallOK'
    <2>1. ASSUME NEW u \in Task \ {t} PROVE CallOf(u)'
      BY OtherCall DEF TypeOK, PlaceOK
    <2>2. CallOf(t)'
      BY DEF TypeOK, PlaceOK, CallOf
    <2> QED
      BY <2>1, <2>2 DEF CallOK
  <1>6. SlotOK'
    BY DEF TypeOK, PlaceOK, Alone, OpenOK, CloseOK, SlotOK
  <1>7. SemOK'
    BY DEF TypeOK, PlaceOK, OpenOK, CloseOK, CallOK, SlotOK, SemOK
  <1>8. HoldOK'
    BY DEF TypeOK, PlaceOK, OpenOK, CloseOK, CallOK, SlotOK, HoldOK
  <1> QED
    BY <1>4, <1>5, <1>c, <1>6, <1>7, <1>8

LEMMA ClosePendStep ==
  ASSUME IInv, Allowed \subseteq {"closeLate"}, NEW t \in Task, ClosePend(t)
  PROVE  IInv'
  <1> DEFINE d == dev[t]
             s == DevSem[d]
  <1>1. /\ pc[t] = "closePend" /\ d \in Slot /\ s # None
        /\ Pend(t, d, "release", "closeWait") /\ UNCHANGED <<devVars, driver>>
    BY DEF IInv, PlaceOK, CallOK, CloseOK, ClosePend, At, Calling, Closing
  <1>2. s \in Sem /\ cnt[s] \in {0, 1} /\ dev' = dev
    BY <1>1, PendEffect
  <1>3. \A e \in Slot : DevSem[e] = s => e = d
    BY <1>1 DEF IInv, SlotOK
  <1>4. CASE /\ pc' = [pc EXCEPT ![t] = "release"] /\ cnt[s] = 1
             /\ cnt' = [cnt EXCEPT ![s] = 0] /\ waiting' = waiting
    <2>1. \A u \in Task : Holder(u) => dev[u] # d
      BY <1>1, <1>2, <1>4 DEF IInv, HoldOK, Holder
    <2> HIDE DEF s
    <2> USE DeviceAssumption, <1>1, <1>2, <1>3, <1>4
            DEF IInv, devVars, Exclusive, Opening, Closing, Calling
    <2>2. TypeOK' /\ PlaceOK' /\ Alone'
      BY DEF TypeOK, PlaceOK, Alone
    <2>3. OpenOK' /\ CloseOK'
      BY DEF TypeOK, PlaceOK, OpenOK, CloseOK, CallOK, s
    <2>c. CallOK'
      <3>1. ASSUME NEW u \in Task \ {t} PROVE CallOf(u)'
        BY OtherCall DEF TypeOK, PlaceOK
      <3>2. CallOf(t)'
        BY DEF TypeOK, PlaceOK, CallOf
      <3> QED
        BY <3>1, <3>2 DEF CallOK
    <2>4. SlotOK' /\ SemOK'
      BY DEF TypeOK, PlaceOK, SlotOK, SemOK, s
    <2>5. HoldOK'
      BY <2>1 DEF TypeOK, PlaceOK, SlotOK, CloseOK, CallOK, HoldOK, Holder, s
    <2> QED
      BY <2>2, <2>3, <2>c, <2>4, <2>5
  <1>5. CASE /\ pc' = [pc EXCEPT ![t] = "closeWait"] /\ cnt' = cnt
             /\ waiting' = [waiting EXCEPT ![s] = @ \cup {t}]
    <2> HIDE DEF s
    <2> USE DeviceAssumption, <1>1, <1>2, <1>3, <1>5
            DEF IInv, devVars, Exclusive, Opening, Closing, Calling
    <2>2. TypeOK' /\ PlaceOK' /\ Alone'
      BY DEF TypeOK, PlaceOK, Alone
    <2>3. OpenOK' /\ CloseOK'
      BY DEF TypeOK, PlaceOK, OpenOK, CloseOK, CallOK, s
    <2>c. CallOK'
      <3>1. ASSUME NEW u \in Task \ {t} PROVE CallOf(u)'
        BY OtherCall DEF TypeOK, PlaceOK
      <3>2. CallOf(t)'
        BY DEF TypeOK, PlaceOK, CallOf
      <3> QED
        BY <3>1, <3>2 DEF CallOK
    <2>4. SlotOK' /\ SemOK'
      BY DEF TypeOK, PlaceOK, SlotOK, SemOK, s
    <2>5. HoldOK'
      BY DEF TypeOK, PlaceOK, HoldOK, Holder
    <2> QED
      BY <2>2, <2>3, <2>c, <2>4, <2>5
  <1> QED
    BY <1>1, <1>4, <1>5, PendEffect

LEMMA ReleaseStep ==
  ASSUME IInv, Allowed \subseteq {"closeLate"}, NEW t \in Task, Release(t)
  PROVE  IInv'
  <1> DEFINE d == dev[t]
  <1>1. /\ pc[t] = "release" /\ d \in Slot /\ ~Opened[d]
        /\ \A u \in Task \ {t} : dev[u] = d => pc[u] \notin Exclusive \cup {"call", "callPost"}
    <2>1. pc[t] = "release" /\ d \in Slot /\ ~Opened[d]
      BY DEF IInv, PlaceOK, CloseOK, Release, At, Closing
    <2>2. \A u \in Task \ {t} : dev[u] = d => pc[u] \notin {"call", "callPost"}
      BY <2>1 DEF IInv, HoldOK, Holder
    <2> QED
      BY <2>1, <2>2 DEF IInv, Alone, Exclusive, Closing
  <1>2. /\ MagicNumber' = [MagicNumber EXCEPT ![d] = "closed"]
        /\ driver' = [driver EXCEPT ![d] = FALSE]
        /\ pc' = [pc EXCEPT ![t] = "closeDel"]
        /\ UNCHANGED <<dev, DevName, Opened, DevSem, semVars>>
    BY DEF Release, Goto
  <1> HIDE DEF d
  <1> USE DeviceAssumption, <1>1, <1>2
          DEF IInv, semVars, Exclusive, Opening, Closing, Calling
  <1>3. TypeOK' /\ PlaceOK' /\ Alone'
    BY DEF TypeOK, PlaceOK, Alone
  <1>4. OpenOK'
    BY DEF TypeOK, PlaceOK, OpenOK, d
  <1>c. CallOK'
    <2> SUFFICES ASSUME NEW u \in Task, pc[u] \in Calling, u # t PROVE CallOf(u)'
      BY DEF TypeOK, CallOK, CallOf
    <2>1. CallOf(u) /\ pc'[u] = pc[u] /\ dev'[u] = dev[u] /\ dev[u] \in Slot
      BY DEF TypeOK, PlaceOK, CallOK
    <2>2. CASE dev[u] = d
      <3>1. Dying(dev[u])'
        BY <2>1, <2>2 DEF TypeOK, Dying, d
      <3>2. pc[u] \in {"callPend", "callWait"}
        BY <2>2
      <3>3. pc[u] = "callWait" => u \in waiting'[DevSem'[dev'[u]]]
        BY <2>1 DEF CallOf
      <3> QED
        BY <2>1, <3>1, <3>2, <3>3 DEF CallOf
    <2>3. CASE dev[u] # d
      <3>1. Dying(dev[u]) => Dying(dev[u])'
        BY DEF TypeOK, Dying
      <3> QED
        BY <2>1, <2>3, <3>1 DEF TypeOK, CallOf
    <2> QED
      BY <2>2, <2>3
  <1>5. CloseOK'
    BY DEF TypeOK, PlaceOK, CloseOK, d
  <1>6. SlotOK'
    BY DEF TypeOK, PlaceOK, SlotOK
  <1>7. SemOK' /\ HoldOK'
    BY DEF TypeOK, PlaceOK, SemOK, HoldOK, Holder
  <1> QED
    BY <1>3, <1>4, <1>c, <1>5, <1>6, <1>7

(* A task past the semaphore of its device: there is a semaphore. *)
LEMMA HolderSem ==
  ASSUME IInv, NEW t \in Task, Holder(t)
  PROVE  DevSem[dev[t]] \in Sem
  <1>1. dev[t] \in Slot
    BY DEF IInv, PlaceOK, Holder
  <1>2. DevSem[dev[t]] # None
    BY DEF IInv, CallOK, CallOf, CloseOK, Holder, Calling, Closing
  <1> QED
    BY <1>1, <1>2 DEF IInv, TypeOK

(* Nothing changes, as when OSSemDel is refused because a task waits. *)
LEMMA StutterStep ==
  ASSUME IInv, UNCHANGED vars PROVE IInv'
  BY DEF vars, devVars, semVars, IInv, TypeOK, PlaceOK, Alone, OpenOK, CloseOK,
         CallOK, CallOf, Dying, SlotOK, SemOK, HoldOK, Holder

LEMMA CloseDelStep ==
  ASSUME IInv, Allowed \subseteq {"closeLate"}, NEW t \in Task, CloseDel(t)
  PROVE  IInv'
  <1> DEFINE d == dev[t]
             s == DevSem[d]
  <1>0. /\ pc[t] = "closeDel" /\ d \in Slot /\ s \in Sem /\ cnt[s] # None
        /\ ~Opened[d] /\ ~driver[d]
        /\ \A u \in Task \ {t} : dev[u] = d => pc[u] \notin Exclusive \cup {"callPend"}
        /\ \A e \in Slot : DevSem[e] = s => e = d
    <2>1. /\ pc[t] = "closeDel" /\ d \in Slot /\ s \in Sem /\ cnt[s] # None
          /\ ~Opened[d] /\ ~driver[d]
          /\ \A e \in Slot : DevSem[e] = s => e = d
      BY DEF IInv, TypeOK, PlaceOK, CloseOK, SlotOK, CloseDel, At, Closing
    <2>2. \A u \in Task \ {t} : dev[u] = d => pc[u] \notin Exclusive
      BY <2>1 DEF IInv, Alone, Exclusive, Closing
    <2>3. \A u \in Task \ {t} : dev[u] = d => pc[u] # "callPend"
      BY DEF CloseDel, Others
    <2> QED
      BY <2>1, <2>2, <2>3
  <1>a. CASE waiting[s] # {}
    <2>1. UNCHANGED vars
      BY <1>0, <1>a, DeviceAssumption DEF CloseDel, vars, devVars, semVars, IInv, TypeOK
    <2> QED
      BY <2>1, StutterStep
  <1>b. ASSUME waiting[s] = {} PROVE IInv'
    <2>1. \A u \in Task \ {t} : dev[u] = d => pc[u] \notin Exclusive \cup Calling
      <3>1. \A u \in Task \ {t} : dev[u] = d => pc[u] # "callWait"
        BY <1>b DEF IInv, CallOK, CallOf
      <3>2. \A u \in Task \ {t} : dev[u] = d => pc[u] \notin {"call", "callPost"}
        BY <1>0 DEF IInv, HoldOK, Holder
      <3> QED
        BY <1>0, <3>1, <3>2 DEF Calling
    <2>3. /\ DevSem' = [DevSem EXCEPT ![d] = None]
          /\ cnt' = [e \in Sem |-> IF e = s THEN None ELSE cnt[e]]
          /\ pc' = [pc EXCEPT ![t] = "user"] /\ dev' = [dev EXCEPT ![t] = None]
          /\ UNCHANGED <<MagicNumber, DevName, Opened, driver, waiting>>
      BY <1>0, <1>b DEF CloseDel, Return, Enter
    <2> HIDE DEF d, s
    <2> USE DeviceAssumption, <1>0, <1>b, <2>1, <2>3
            DEF IInv, Exclusive, Opening, Closing, Calling
    <2>4. TypeOK' /\ PlaceOK' /\ Alone'
      BY DEF TypeOK, PlaceOK, Alone
    <2>5. OpenOK'
      BY DEF TypeOK, PlaceOK, OpenOK, d
    <2>c. CallOK'
      <3>1. ASSUME NEW u \in Task \ {t} PROVE CallOf(u)'
        <4>1. \A v \in Task \ {t} : pc[v] \in Calling => dev[v] # d /\ dev[v] \in Slot
          BY DEF PlaceOK
        <4> QED
          BY <4>1, OtherCall DEF TypeOK, d
      <3>2. CallOf(t)'
        BY DEF TypeOK, CallOf
      <3> QED
        BY <3>1, <3>2 DEF CallOK
    <2>6. CloseOK'
      BY DEF TypeOK, PlaceOK, CloseOK
    <2>7. SlotOK'
      BY DEF TypeOK, PlaceOK, SlotOK, s
    <2>8. SemOK'
      BY DEF TypeOK, PlaceOK, SemOK, s
    <2>9. HoldOK'
      <3>1. \A v \in Task : Holder(v)' <=> v # t /\ Holder(v)
        BY DEF TypeOK, Holder
      <3>2. \A v \in Task : v # t /\ Holder(v) => /\ dev'[v] = dev[v] /\ dev[v] # d
                                                /\ dev[v] \in Slot
        BY DEF TypeOK, PlaceOK, Holder
      <3>3. \A v \in Task : v # t /\ Holder(v) => /\ DevSem'[dev[v]] = DevSem[dev[v]]
                                                /\ DevSem[dev[v]] # s
        BY <3>2 DEF TypeOK
      <3>4. \A v \in Task : v # t /\ Holder(v) => DevSem[dev[v]] \in Sem
        BY HolderSem
      <3>5. \A v \in Task : v # t /\ Holder(v) => cnt'[DevSem[dev[v]]] = 0
        BY <3>3, <3>4 DEF TypeOK, HoldOK
      <3> QED
        BY <3>1, <3>2, <3>3, <3>5 DEF HoldOK
    <2> QED
      BY <2>4, <2>5, <2>c, <2>6, <2>7, <2>8, <2>9
  <1> QED
    BY <1>a, <1>b


-----------------------------------------------------------------------------
LEMMA NextIInv ==
  ASSUME IInv, Allowed \subseteq {"closeLate"}, [Next]_vars
  PROVE  IInv'
  <1>1. CASE UNCHANGED vars
    BY <1>1, StutterStep
  <1>2. CASE \E n \in Name : RegisterDevice(n) \/ UnregisterDevice(n)
    BY <1>2, RegisterStep
  <1>3. ASSUME NEW t \in Task, Inside(t) PROVE IInv'
    BY <1>3, OpenSemStep, OpenMarkStep, OpenDriverStep, CallPendStep, DriverCallStep,
       CallPostStep, CloseMarkStep, ClosePendStep, ReleaseStep, CloseDelStep
       DEF Inside
  <1>4. ASSUME NEW t \in Task, \E n \in Name : OpenFind(t, n) PROVE IInv'
    BY <1>4, OpenFindStep
  <1>5. ASSUME NEW t \in Task, \E d \in Slot : CallCheck(t, d) \/ CloseCheck(t, d)
        PROVE  IInv'
    BY <1>5, CallCheckStep, CloseCheckStep
  <1> QED
    BY <1>1, <1>2, <1>3, <1>4, <1>5 DEF Next

LEMMA Invariance == ASSUME Allowed \subseteq {"closeLate"} PROVE Spec => []IInv
  <1>1. IInv /\ [Next]_vars => IInv'
    BY NextIInv
  <1> QED
    BY InitIInv, <1>1, PTL DEF Spec

(***************************************************************************)
(* The variables of the framework keep their types; in particular no       *)
(* semaphore of a device counts beyond one.                                *)
(***************************************************************************)
THEOREM DeviceType == ASSUME Allowed \subseteq {"closeLate"} PROVE Spec => []TypeOK
  <1>1. IInv => TypeOK
    BY DEF IInv
  <1> QED
    BY <1>1, Invariance, PTL

(***************************************************************************)
(* For any number of tasks and devices the driver is called only between   *)
(* its Open and its Release, although CloseDevice may come at any moment   *)
(* of the calls of other tasks: it waits for the call in the driver, and   *)
(* the others wait for a semaphore it does not give back.  The hypothesis  *)
(* leaves out the deletion of that semaphore while a call is between its   *)
(* test and its pend - such a call would go on into the released driver -  *)
(* and overlapping opens or closes of one device.                          *)
(***************************************************************************)
THEOREM DriverOnlyWhileOpen == ASSUME Allowed \subseteq {"closeLate"} PROVE Spec => []DriverWhileOpen
  <1>1. IInv => DriverWhileOpen
    BY DEF IInv, CallOK, CallOf, DriverWhileOpen
  <1> QED
    BY <1>1, Invariance, PTL

(***************************************************************************)
(* For any number of tasks and devices no semaphore is lost or shared, if  *)
(* one task at a time opens or closes a device and no closed one is opened *)
(* before it is registered again.                                          *)
(***************************************************************************)
THEOREM SemaphoresOwned == ASSUME Allowed \subseteq {"closeLate"} PROVE Spec => []SemsOwned
  <1>1. ASSUME IInv PROVE SemsOwned
    <2> SUFFICES ASSUME NEW s \in Sem, cnt[s] # None
                 PROVE  SemsOwned!2!(s)!2
      BY <1>1 DEF SemsOwned, IInv
    <2>1. PICK d \in Slot : DevSem[d] = s
      BY <1>1 DEF IInv, SemOK
    <2> QED
      BY <1>1, <2>1, DeviceAssumption DEF IInv, TypeOK, SlotOK, Opening
  <1> QED
    BY <1>1, Invariance, PTL

(* A holder is past the device's semaphore, in or about to call the driver *)
OneInDriver ==
  \A t, u \in Task : (Holder(t) /\ Holder(u) /\ dev[t] = dev[u]) => t = u

(***************************************************************************)
(* The calls of a device are passed to its driver one at a time, and not   *)
(* while CloseDevice releases the driver, also when calls that have passed *)
(* the test of the open flag still wait; under the same hypothesis.        *)
(***************************************************************************)
THEOREM OneTaskInDriver == ASSUME Allowed \subseteq {"closeLate"} PROVE Spec => []OneInDriver
  <1>1. IInv => OneInDriver
    BY DEF IInv, HoldOK, OneInDriver
  <1> QED
    BY <1>1, Invariance, PTL
=============================================================================
