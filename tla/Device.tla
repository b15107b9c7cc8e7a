------------------------------- MODULE Device -------------------------------
(***************************************************************************)
(* The device framework of src/device.c: a table of drivers, found by name *)
(* when a device is opened, and calls that are passed on to the driver one *)
(* at a time under the semaphore of the device.  CloseDevice clears the    *)
(* open flag, waits for the call in progress and deletes the semaphore.    *)
(*                                                                         *)
(* ReadDevice, WriteDevice, SeekDevice and IoctlDevice are one operation,  *)
(* the call.  Tasks are preempted between any two steps.  The semaphores   *)
(* are those of OsSem, as CountingSemaphore states them; every function    *)
(* ignores the error of OSSemPend, so a pend on a deleted one passes.      *)
(***************************************************************************)
EXTENDS Naturals, FiniteSets

CONSTANTS Task, Slot,      \* Slot: the indices of g_Devices
          Name, Sem, None,
          Allowed   \* legal calls the framework does not cope with:
\* "openRace": a device is opened while another task opens or closes it;
\* "reopen": a closed device is opened without being registered again;
\* "closeTwice": a device is closed while another task closes it;
\* "closeLate": CloseDevice clears the flag while a call has passed its tests
\*              and has not got the semaphore yet;
\* "deleteBusy": it even deletes the semaphore before that call pends on it

ASSUME DeviceAssumption ==
  /\ Slot \subseteq Nat /\ IsFiniteSet(Slot)
  /\ None \notin Task \cup Nat \cup Name \cup Sem
  /\ Allowed \subseteq {"openRace", "reopen", "closeTwice", "closeLate", "deleteBusy"}

VARIABLES MagicNumber, DevName, Opened, DevSem,    \* g_Devices
          driver,      \* per slot: has the driver been opened and not released?
          cnt, waiting,    \* per semaphore; cnt is None when it does not exist
          pc, dev          \* per task: its place in a function, and the slot

devVars == <<MagicNumber, DevName, Opened, DevSem>>
semVars == <<cnt, waiting>>
vars == <<devVars, driver, semVars, pc, dev>>

Opening == {"openSem", "openMark", "openDriver"}
Closing == {"closeMark", "closePend", "closeWait", "release", "closeDel"}
Calling == {"callPend", "callWait", "call", "callPost"}

At(t, label) == pc[t] = label
Goto(t, label) == pc' = [pc EXCEPT ![t] = label] /\ UNCHANGED dev
Enter(t, label, d) == pc' = [pc EXCEPT ![t] = label] /\ dev' = [dev EXCEPT ![t] = d]
Return(t) == Enter(t, "user", None)
Others(t, d, labels) == {u \in Task \ {t} : dev[u] = d /\ pc[u] \in labels}
First(S) == CHOOSE d \in S : \A e \in S : d <= e
Registered(n) == {d \in Slot : MagicNumber[d] = "valid" /\ DevName[d] = n}

-----------------------------------------------------------------------------
(* The table is changed without a lock; RegisterDevice and                 *)
(* UnregisterDevice are called when no task is inside the framework (all   *)
(* drivers are registered before OSStart, in stdapi.c).                    *)
Quiet == \A t \in Task : pc[t] = "user"

RegisterDevice(n) ==
  LET free == {d \in Slot : MagicNumber[d] # "valid"}
      d == First(free)
  IN  /\ Quiet
      /\ Registered(n) = {} /\ free # {}
      /\ MagicNumber' = [MagicNumber EXCEPT ![d] = "valid"]
      /\ DevName' = [DevName EXCEPT ![d] = n]
      /\ Opened' = [Opened EXCEPT ![d] = FALSE]
      /\ DevSem' = [DevSem EXCEPT ![d] = None]
      /\ driver' = [driver EXCEPT ![d] = FALSE]
      /\ UNCHANGED <<semVars, pc, dev>>

UnregisterDevice(n) ==
  \E d \in Registered(n) :
    /\ Quiet /\ ~Opened[d]
    /\ MagicNumber' = [MagicNumber EXCEPT ![d] = "none"]
    /\ DevName' = [DevName EXCEPT ![d] = None]
    /\ DevSem' = [DevSem EXCEPT ![d] = None]
    /\ UNCHANGED <<Opened, driver, semVars, pc, dev>>

-----------------------------------------------------------------------------
(* OSSemPend(device->Sem, 0): on to the label go, or to wait. *)
Pend(t, d, go, wait) ==
  LET s == DevSem[d]
  IN  IF s = None \/ cnt[s] = None
      THEN Goto(t, go) /\ UNCHANGED semVars
      ELSE IF cnt[s] > 0
      THEN Goto(t, go) /\ cnt' = [cnt EXCEPT ![s] = @ - 1] /\ UNCHANGED waiting
      ELSE Goto(t, wait) /\ waiting' = [waiting EXCEPT ![s] = @ \cup {t}]
                         /\ UNCHANGED cnt

(* Where a task goes on that is given the semaphore. *)
Granted(u) == IF pc[u] = "closeWait" THEN "release" ELSE "call"

UnitsOf(s) == 1

(* OpenDevice: the first slot of that name, whatever its magic number. *)
OpenFind(t, n) ==
  LET d == First({e \in Slot : DevName[e] = n})
  IN  /\ At(t, "user")
      /\ \E e \in Slot : DevName[e] = n
      /\ ~Opened[d]
      /\ "openRace" \in Allowed \/ Others(t, d, Opening \cup Closing) = {}
      /\ "reopen" \in Allowed \/ MagicNumber[d] = "valid"
      /\ Enter(t, "openSem", d)
      /\ UNCHANGED <<devVars, driver, semVars>>

OpenSem(t) ==
  \E s \in Sem :
    /\ At(t, "openSem")
    /\ cnt[s] = None
    /\ cnt' = [cnt EXCEPT ![s] = UnitsOf(s)]
    /\ DevSem' = [DevSem EXCEPT ![dev[t]] = s]
    /\ Goto(t, "openMark")
    /\ UNCHANGED <<MagicNumber, DevName, Opened, driver, waiting>>

OpenMark(t) ==
  /\ At(t, "openMark")
  /\ Opened' = [Opened EXCEPT ![dev[t]] = TRUE]
  /\ Goto(t, "openDriver")
  /\ UNCHANGED <<MagicNumber, DevName, DevSem, driver, semVars>>

(* The driver's Open; when it fails, OpenDevice calls CloseDevice. *)
OpenDriver(t) ==
  /\ At(t, "openDriver")
  /\ \/ driver' = [driver EXCEPT ![dev[t]] = TRUE] /\ Return(t)
     \/ UNCHANGED driver /\ Goto(t, "closeMark")
  /\ UNCHANGED <<devVars, semVars>>

-----------------------------------------------------------------------------
(* The tests of a call; the semaphore; the driver; the semaphore.  Nobody  *)
(* has a handle before the driver's Open has succeeded.                    *)
CallCheck(t, d) ==
  /\ At(t, "user")
  /\ MagicNumber[d] = "valid" /\ Opened[d]
  /\ driver[d]
  /\ Enter(t, "callPend", d)
  /\ UNCHANGED <<devVars, driver, semVars>>

CallPend(t) ==
  /\ At(t, "callPend")
  /\ Pend(t, dev[t], "call", "callWait")
  /\ UNCHANGED <<devVars, driver>>

DriverCall(t) ==
  /\ At(t, "call")
  /\ Goto(t, "callPost")
  /\ UNCHANGED <<devVars, driver, semVars>>

CallPost(t) ==
  LET s == DevSem[dev[t]]
  IN  /\ At(t, "callPost")
      /\ IF s = None \/ cnt[s] = None THEN Return(t) /\ UNCHANGED semVars
         ELSE IF waiting[s] = {}
         THEN Return(t) /\ cnt' = [cnt EXCEPT ![s] = @ + 1] /\ UNCHANGED waiting
         ELSE \E u \in waiting[s] :
                /\ waiting' = [waiting EXCEPT ![s] = @ \ {u}]
                /\ pc' = [pc EXCEPT ![t] = "user", ![u] = Granted(u)]
                /\ dev' = [dev EXCEPT ![t] = None]
                /\ UNCHANGED cnt
      /\ UNCHANGED <<devVars, driver>>

-----------------------------------------------------------------------------
CloseCheck(t, d) ==
  /\ At(t, "user")
  /\ MagicNumber[d] = "valid" /\ Opened[d]
  /\ driver[d]
  /\ "closeTwice" \in Allowed \/ Others(t, d, Closing) = {}
  /\ Enter(t, "closeMark", d)
  /\ UNCHANGED <<devVars, driver, semVars>>

(* Slip: the open flag is not cleared. *)
CloseMarkNot(t) ==
  /\ At(t, "closeMark")
  /\ "closeLate" \in Allowed \/ Others(t, dev[t], {"callPend", "callWait"}) = {}
  /\ Goto(t, "closePend")
  /\ UNCHANGED <<devVars, driver, semVars>>

CloseMark(t) ==
  /\ At(t, "closeMark")
  /\ "closeLate" \in Allowed \/ Others(t, dev[t], {"callPend", "callWait"}) = {}
  /\ Opened' = [Opened EXCEPT ![dev[t]] = FALSE]
  /\ Goto(t, "closePend")
  /\ UNCHANGED <<MagicNumber, DevName, DevSem, driver, semVars>>

(* Slip: the call in progress is not waited for. *)
ClosePendNot(t) ==
  /\ At(t, "closePend")
  /\ Goto(t, "release")
  /\ UNCHANGED <<devVars, driver, semVars>>

ClosePend(t) ==
  /\ At(t, "closePend")
  /\ Pend(t, dev[t], "release", "closeWait")
  /\ UNCHANGED <<devVars, driver>>

Release(t) ==
  /\ At(t, "release")
  /\ MagicNumber' = [MagicNumber EXCEPT ![dev[t]] = "closed"]
  /\ driver' = [driver EXCEPT ![dev[t]] = FALSE]
  /\ Goto(t, "closeDel")
  /\ UNCHANGED <<DevName, Opened, DevSem, semVars>>

(* Slip: the semaphore is deleted with OS_DEL_ALWAYS, which readies the    *)
(* waiters.                                                                *)
CloseDelAlways(t) ==
  LET s == DevSem[dev[t]]
  IN  /\ At(t, "closeDel")
      /\ DevSem' = [DevSem EXCEPT ![dev[t]] = None]
      /\ cnt' = [e \in Sem |-> IF e = s THEN None ELSE cnt[e]]
      /\ waiting' = [e \in Sem |-> IF e = s THEN {} ELSE waiting[e]]
      /\ pc' = [u \in Task |-> IF u = t THEN "user"
                               ELSE IF s # None /\ u \in waiting[s] THEN Granted(u)
                               ELSE pc[u]]
      /\ dev' = [dev EXCEPT ![t] = None]
      /\ UNCHANGED <<MagicNumber, DevName, Opened, driver>>

(* OSSemDel(OS_DEL_NO_PEND): refused while a task waits, and then tried    *)
(* again after a tick.                                                     *)
CloseDel(t) ==
  LET s == DevSem[dev[t]]
      deleted == s = None \/ (cnt[s] # None /\ waiting[s] = {})
  IN  /\ At(t, "closeDel")
      /\ "deleteBusy" \in Allowed \/ Others(t, dev[t], {"callPend"}) = {}
      /\ IF deleted
         THEN /\ DevSem' = [DevSem EXCEPT ![dev[t]] = None]
              /\ cnt' = [e \in Sem |-> IF e = s THEN None ELSE cnt[e]]
              /\ Return(t)
         ELSE UNCHANGED <<DevSem, cnt, pc, dev>>
      /\ UNCHANGED <<MagicNumber, DevName, Opened, driver, waiting>>

-----------------------------------------------------------------------------
Init ==
  /\ MagicNumber = [d \in Slot |-> "none"]
  /\ DevName = [d \in Slot |-> None]
  /\ Opened = [d \in Slot |-> FALSE]
  /\ DevSem = [d \in Slot |-> None]
  /\ driver = [d \in Slot |-> FALSE]
  /\ cnt = [s \in Sem |-> None]
  /\ waiting = [s \in Sem |-> {}]
  /\ pc = [t \in Task |-> "user"]
  /\ dev = [t \in Task |-> None]

Inside(t) == \/ OpenSem(t) \/ OpenMark(t) \/ OpenDriver(t)
             \/ CallPend(t) \/ DriverCall(t) \/ CallPost(t)
             \/ CloseMark(t) \/ ClosePend(t) \/ Release(t) \/ CloseDel(t)

Next == \/ \E n \in Name : RegisterDevice(n) \/ UnregisterDevice(n)
        \/ \E t \in Task : \/ Inside(t)
                           \/ \E n \in Name : OpenFind(t, n)
                           \/ \E d \in Slot : CallCheck(t, d) \/ CloseCheck(t, d)

(* A task inside a function of the framework goes on, and drivers return. *)
Spec == Init /\ [][Next]_vars /\ \A t \in Task : WF_vars(Inside(t))

-----------------------------------------------------------------------------
TypeOK ==
  /\ MagicNumber \in [Slot -> {"none", "valid", "closed"}]
  /\ DevName \in [Slot -> Name \cup {None}]
  /\ Opened \in [Slot -> BOOLEAN] /\ driver \in [Slot -> BOOLEAN]
  /\ DevSem \in [Slot -> Sem \cup {None}]
  /\ cnt \in [Sem -> {None, 0, 1}] /\ waiting \in [Sem -> SUBSET Task]
  /\ pc \in [Task -> {"user"} \cup Opening \cup Calling \cup Closing]
  /\ dev \in [Task -> Slot \cup {None}]

(***************************************************************************)
(* The driver is called only between its Open and its Release, although a  *)
(* device may be closed while a call is in the driver and others have      *)
(* passed the test of the open flag: they wait for the semaphore, which    *)
(* CloseDevice keeps.                                                      *)
(***************************************************************************)
DriverWhileOpen == \A t \in Task : pc[t] = "call" => driver[dev[t]]

(***************************************************************************)
(* No semaphore is lost or shared: each one that exists belongs to one     *)
(* device, which is open, being opened or being closed.                    *)
(***************************************************************************)
SemsOwned ==
  /\ TypeOK
  /\ \A s \in Sem : cnt[s] # None =>
       \E d \in Slot : /\ DevSem[d] = s
                       /\ \A e \in Slot \ {d} : DevSem[e] # s
                       /\ \/ Opened[d]
                          \/ \E t \in Task : dev[t] = d /\ pc[t] \in Opening \cup Closing

(***************************************************************************)
(* CloseDevice returns if no call has passed the test of the open flag and *)
(* is still without the semaphore when the flag is cleared: the call in    *)
(* progress signals the semaphore, and OSSemDel is not refused for ever.   *)
(***************************************************************************)
CloseEnds ==
  \A t \in Task :
    pc[t] = "closePend" /\ Others(t, dev[t], {"callPend", "callWait"}) = {}
      ~> pc[t] = "user"
=============================================================================
