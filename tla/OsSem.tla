------------------------------- MODULE OsSem -------------------------------
(***************************************************************************)
(* The counting semaphores of src/os_sem.c, on the kernel core and its     *)
(* task services.  Every function reads OSEventType before it enters its   *)
(* critical region; the test is a step of its own, SemCall, so the event   *)
(* may change hands before the region is reached.                          *)
(***************************************************************************)
EXTENDS OsTask

CONSTANTS MaxCnt,    \* largest count a semaphore holds (65535 in the code)
          SemInit,   \* the semaphores that exist when OSStart is called
          DelOpts,   \* the options the application gives OSSemDel
          IrqEvent   \* the semaphores interrupt handlers signal

ASSUME SemAssumption == /\ MaxCnt \in Nat
                        /\ SemInit \subseteq Event /\ IrqEvent \subseteq Event
                        /\ DelOpts \subseteq {"OS_DEL_NO_PEND", "OS_DEL_ALWAYS"}

VARIABLES OSEventType, OSEventCnt,
          OSEventFreeList, OSEventPtr    \* the free event blocks, linked

semVars == <<OSEventType, OSEventCnt, OSEventFreeList, OSEventPtr>>
vars == <<coreVars, semVars>>

-----------------------------------------------------------------------------
(* The test every semaphore function starts with, before its region. *)
SemCall(t, f, e) ==
  /\ Calling(t)
  /\ OSIntNesting = 0
  /\ f = "semPend" => OSLockNesting = 0
  /\ f = "semDel" => DelOpts # {}
  /\ OSEventType[e] = "SEM"
  /\ Goto(t, f, e)
  /\ UNCHANGED <<OSRdyTbl, cpuVars, tblVars, tcbVars, OSEventTbl, semVars>>

(* One unit of the count, if there is one; OSSemAccept returns anyway. *)
SemTake(t) ==
  LET e == arg[t]
  IN  /\ At(t, "semPend") \/ At(t, "semAccept")
      /\ OSEventCnt[e] > 0
      /\ OSEventCnt' = [OSEventCnt EXCEPT ![e] = @ - 1]
      /\ Return(t)
      /\ UNCHANGED <<OSRdyTbl, cpuVars, tblVars, tcbVars, OSEventTbl,
                     OSEventType, OSEventFreeList, OSEventPtr>>

SemAcceptNone(t) ==
  /\ At(t, "semAccept")
  /\ OSEventCnt[arg[t]] = 0
  /\ Return(t)
  /\ UNCHANGED <<OSRdyTbl, cpuVars, tblVars, tcbVars, OSEventTbl, semVars>>

SemWait(t, n) ==
  /\ At(t, "semPend")
  /\ OSEventCnt[arg[t]] = 0
  /\ EventTaskWait(t, arg[t], "SEM", n)
  /\ Goto(t, "schedPend", arg[t])
  /\ UNCHANGED <<cpuVars, tblVars, semVars>>

(* The second half of OSSemPend: OS_TIMEOUT or OS_NO_ERR. *)
SemPended(t) ==
  /\ At(t, "pended")
  /\ EventTO(t) \/ EventGot(t)
  /\ Return(t)
  /\ UNCHANGED <<cpuVars, tblVars, semVars>>

-----------------------------------------------------------------------------

(* Slip: the least urgent waiter is served. *)
PostToLeastUrgent(e) ==
  IF OSEventTbl[e] # {}
  THEN /\ EventTaskRdy(e, {CHOOSE p \in OSEventTbl[e] :
                            \A q \in OSEventTbl[e] : q <= p}, "SEM")
       /\ UNCHANGED OSEventCnt
  ELSE /\ OSEventCnt' = [OSEventCnt EXCEPT
                           ![e] = IF @ < MaxCnt THEN @ + 1 ELSE @]
       /\ UNCHANGED <<OSRdyTbl, tcbVars, OSEventTbl>>

(* The region of OSSemPost: hand the event over, or count it; at the limit *)
(* of the count it is dropped (OS_SEM_OVF).                                *)
Post(e) ==
  IF OSEventTbl[e] # {}
  THEN /\ EventTaskRdy(e, {Highest(OSEventTbl[e])}, "SEM")
       /\ UNCHANGED OSEventCnt
  ELSE /\ OSEventCnt' = [OSEventCnt EXCEPT
                           ![e] = IF @ < MaxCnt THEN @ + 1 ELSE @]
       /\ UNCHANGED <<OSRdyTbl, tcbVars, OSEventTbl>>

SemPost(t) ==
  /\ At(t, "semPost")
  /\ Post(arg[t])
  /\ IF OSEventTbl[arg[t]] # {} THEN Reschedule(t) ELSE Return(t)
  /\ UNCHANGED <<cpuVars, tblVars, OSEventType, OSEventFreeList, OSEventPtr>>

(* OSSemPost in an interrupt handler (isr_eth signals sem_recv): OS_Sched  *)
(* does nothing there, and the handler is not itself interrupted here.     *)
IrqPost(e) ==
  /\ irq
  /\ OSEventType[e] = "SEM"
  /\ Post(e)
  /\ UNCHANGED <<cpuVars, tblVars, pc, arg, OSEventType, OSEventFreeList,
                 OSEventPtr>>

(* Slip: the count is set while tasks wait. *)
SetAnyway(t, n) ==
  /\ At(t, "semSet")
  /\ OSEventCnt' = [OSEventCnt EXCEPT ![arg[t]] = n]
  /\ Return(t)
  /\ UNCHANGED <<OSRdyTbl, cpuVars, tblVars, tcbVars, OSEventTbl,
                 OSEventType, OSEventFreeList, OSEventPtr>>

SemSet(t, n) ==
  LET e == arg[t]
  IN  /\ At(t, "semSet")
      /\ OSEventCnt' = [OSEventCnt EXCEPT
                          ![e] = IF @ > 0 \/ OSEventTbl[e] = {} THEN n ELSE @]
      /\ Return(t)
      /\ UNCHANGED <<OSRdyTbl, cpuVars, tblVars, tcbVars, OSEventTbl,
                     OSEventType, OSEventFreeList, OSEventPtr>>

-----------------------------------------------------------------------------
(* OSSemCreate unlinks a block in a critical region, and fills it in after. *)
EventTake(t) ==
  /\ Calling(t) /\ OSIntNesting = 0
  /\ OSEventFreeList # None
  /\ OSEventFreeList' = OSEventPtr[OSEventFreeList]
  /\ Goto(t, "semInit", OSEventFreeList)
  /\ UNCHANGED <<OSRdyTbl, cpuVars, tblVars, tcbVars, OSEventTbl,
                 OSEventType, OSEventCnt, OSEventPtr>>

SemCreate(t, n) ==
  LET e == arg[t]
  IN  /\ At(t, "semInit")
      /\ OSEventType' = [OSEventType EXCEPT ![e] = "SEM"]
      /\ OSEventCnt' = [OSEventCnt EXCEPT ![e] = n]
      /\ OSEventPtr' = [OSEventPtr EXCEPT ![e] = None]
      /\ OSEventTbl' = [OSEventTbl EXCEPT ![e] = {}]
      /\ Return(t)
      /\ UNCHANGED <<OSRdyTbl, cpuVars, tblVars, tcbVars, OSEventFreeList>>

(***************************************************************************)
(* OSSemDel: refused while tasks wait (OS_ERR_TASK_WAITING), or readying   *)
(* them all.                                                               *)
(***************************************************************************)
SemDel(t, opt) ==
  LET e == arg[t]
      W == OSEventTbl[e]
  IN  /\ At(t, "semDel")
      /\ IF opt = "OS_DEL_NO_PEND" /\ W # {}
         THEN Return(t) /\ UNCHANGED <<OSRdyTbl, tcbVars, OSEventTbl, semVars>>
         ELSE /\ EventTaskRdy(e, W, "SEM")
              /\ OSEventType' = [OSEventType EXCEPT ![e] = "UNUSED"]
              /\ OSEventPtr' = [OSEventPtr EXCEPT ![e] = OSEventFreeList]
              /\ OSEventCnt' = [OSEventCnt EXCEPT ![e] = 0]
              /\ OSEventFreeList' = e
              /\ IF W # {} THEN Reschedule(t) ELSE Return(t)
      /\ UNCHANGED <<cpuVars, tblVars>>

-----------------------------------------------------------------------------
(* The free list first holds, in some order, the blocks not created yet. *)
FreeListOf(S, head, ptr) ==
  LET n == Cardinality(S)
  IN  \E f \in [1 .. n -> S] :
        /\ \A i, j \in 1 .. n : i # j => f[i] # f[j]
        /\ head = IF n = 0 THEN None ELSE f[1]
        /\ \A i \in 1 .. n : ptr[f[i]] = IF i = n THEN None ELSE f[i + 1]

Init ==
  /\ CoreInit
  /\ OSEventType = [e \in Event |-> IF e \in SemInit THEN "SEM" ELSE "UNUSED"]
  /\ \E n \in 0 .. MaxCnt : OSEventCnt = [e \in Event |-> IF e \in SemInit THEN n ELSE 0]
  /\ OSEventFreeList \in Event \cup {None}
  /\ OSEventPtr \in [Event -> Event \cup {None}]
  /\ FreeListOf(Event \ SemInit, OSEventFreeList, OSEventPtr)
  /\ \A e \in SemInit : OSEventPtr[e] = None

SemCalls == {"semPend", "semAccept", "semPost", "semSet", "semDel"}

SemKernel(t) ==
  \/ SemTake(t) \/ SemAcceptNone(t) \/ SemPended(t) \/ SemPost(t)
  \/ \E n \in 0 .. MaxDly : SemWait(t, n)
  \/ \E n \in 0 .. MaxCnt : SemSet(t, n) \/ SemCreate(t, n)
  \/ \E opt \in DelOpts : SemDel(t, opt)

Next ==
  \/ CoreNext /\ UNCHANGED semVars
  \/ \E e \in IrqEvent : IrqPost(e)
  \/ \E t \in Task : \/ SemKernel(t)
                     \/ EventTake(t)
                     \/ \E f \in SemCalls, e \in Event : SemCall(t, f, e)

Spec == Init /\ [][Next]_vars

(***************************************************************************)
(* The timer and the AIC keep raising the tick, every handler ends, and    *)
(* interrupts leave what they interrupt time to go on, so the tick handler *)
(* and a task inside a kernel call that is dispatched again and again get  *)
(* through (strong fairness).  What the application does next is not       *)
(* assumed, except that it unlocks the scheduler it locked (os_core.c:     *)
(* "MUST invoke OSSchedLock() and OSSchedUnlock() in pair").               *)
(***************************************************************************)
TickStep == OSIntExit \/ \E p \in Task : TickOne(p)
KernelStep == \E t \in Task : \/ KernelCall(t) /\ UNCHANGED semVars
                             \/ SemKernel(t)
Unlock == \E t \in Task : OSSchedUnlock(t)

Fairness ==
  /\ WF_vars(IrqExit /\ UNCHANGED semVars)
  /\ SF_vars(TickEntry /\ UNCHANGED semVars)
  /\ SF_vars(TickStep /\ UNCHANGED semVars)
  /\ SF_vars(KernelStep)
  /\ SF_vars(Unlock /\ UNCHANGED semVars)

FairSpec == Spec /\ Fairness

-----------------------------------------------------------------------------
Label == {"user", "sched", "schedPend", "pended", "tcbTake", "tcbLink",
          "unreserve", "tcbFree", "semInit"} \cup SemCalls

TypeOK ==
  /\ OSRdyTbl \subseteq Task /\ OSPrioCur \in Task
  /\ OSIntNesting \in Nat /\ OSLockNesting \in Nat
  /\ irq \in BOOLEAN /\ tick \in BOOLEAN /\ tickLeft \subseteq Task
  /\ OSTCBPrioTbl \in [Task -> {"free", "reserved", "used"}]
  /\ OSTCBFree \in Nat
  /\ OSTCBDly \in [Task -> 0 .. MaxDly]
  /\ OSTCBStat \in [Task -> SUBSET Stat]
  /\ OSTCBPendTO \in [Task -> BOOLEAN]
  /\ OSTCBEventPtr \in [Task -> Event \cup {None}]
  /\ OSEventTbl \in [Event -> SUBSET Task]
  /\ pc \in [Task -> Label]
  /\ arg \in [Task -> Event \cup Task \cup {None}]
  /\ OSEventType \in [Event -> {"SEM", "UNUSED"}]
  /\ OSEventCnt \in [Event -> 0 .. MaxCnt]
  /\ OSEventFreeList \in Event \cup {None}
  /\ OSEventPtr \in [Event -> Event \cup {None}]

BeingDeleted(p) == \E t \in Task : pc[t] = "tcbFree" /\ arg[t] = p
Leaving == {"sched", "schedPend", "tcbFree"}

(***************************************************************************)
(* The ready list holds exactly the tasks that have nothing to wait for:   *)
(* tick, post, suspend, resume, delay and delete each update it with their *)
(* own test, in any order, and none leaves a runnable task out or a        *)
(* blocked one in.                                                         *)
(***************************************************************************)
ReadyExact ==
  \A p \in Task : p \in OSRdyTbl <=> /\ Used(p) /\ ~BeingDeleted(p)
                                     /\ OSTCBStat[p] = {} /\ OSTCBDly[p] = 0

(***************************************************************************)
(* Whoever runs is ready, unless it is on its way into OS_Sched(): a task  *)
(* that blocked, was suspended or was deleted executes nothing more, at    *)
(* whatever point the tick takes the CPU away and gives it back.           *)
(***************************************************************************)
OnlyReadyRuns ==
  \A t \in Task : Running(t) /\ pc[t] \notin Leaving => t \in OSRdyTbl

(***************************************************************************)
(* A task is in the wait list of at most one event, the one its TCB points *)
(* to, and only while it is inside the pend on that event; OSTaskDel and   *)
(* OS_EventTaskRdy rely on it.                                             *)
(***************************************************************************)
WaitListed ==
  \A e \in Event : \A p \in OSEventTbl[e] :
    /\ Used(p) /\ OSTCBEventPtr[p] = e
    /\ pc[p] \in {"schedPend", "pended"} /\ arg[p] = e

(***************************************************************************)
(* No wakeup is lost: a semaphore never has units left while a task is     *)
(* still in its wait list, timed-out tasks included.                       *)
(***************************************************************************)
NoLostWakeup ==
  \A e \in Event : OSEventCnt[e] > 0 => OSEventTbl[e] = {}

(***************************************************************************)
(* Nobody is forgotten: a task blocked on a semaphore is in a wait list    *)
(* where a post will find it.                                              *)
(***************************************************************************)
BlockedIsListed ==
  \A p \in Task : "SEM" \in OSTCBStat[p] =>
    \E e \in Event : OSTCBEventPtr[p] = e /\ p \in OSEventTbl[e]

(***************************************************************************)
(* OSSemPend returns OS_TIMEOUT exactly when no post was handed to it: a   *)
(* post that falls between the tick that times the task out and the        *)
(* moment the task runs again is not lost and not reported as a timeout.   *)
(***************************************************************************)
TimeoutOrGrant ==
  \A t \in Task : At(t, "pended") =>
    (OSTCBPendTO[t] <=> t \in OSEventTbl[arg[t]])

(***************************************************************************)
(* With the scheduler unlocked the most urgent ready task is the one that  *)
(* runs.                                                                   *)
(***************************************************************************)
HighestRuns ==
  \A t \in Task : Running(t) /\ pc[t] \notin Leaving /\ OSLockNesting = 0
                  => t = Highest(OSRdyTbl)

(***************************************************************************)
(* The semaphores implement CountingSemaphore; a task has been granted a   *)
(* unit when it is inside the pend and no longer in the wait list, unless  *)
(* it left the list by being deleted.                                      *)
(***************************************************************************)
Granted == [e \in Event |-> {t \in Task : /\ pc[t] \in {"schedPend", "pended"}
                                          /\ arg[t] = e /\ t \notin OSEventTbl[e]
                                          /\ ~BeingDeleted(t)}]
Abstract == INSTANCE CountingSemaphore
              WITH count <- OSEventCnt, waiting <- OSEventTbl, granted <- Granted
ImplementsSemaphore == Abstract!Spec

(***************************************************************************)
(* No TCB is lost or handed out twice by creations and deletions that      *)
(* interleave, as long as nobody deletes a task that is inside             *)
(* OSTaskCreate itself.                                                    *)
(***************************************************************************)
TcbConserved ==
  OSTCBFree + Cardinality({p \in Task : Used(p)})
            + Cardinality({t \in Task : pc[t] = "tcbLink"})
    = SpareTcb + Cardinality(Boot)

(***************************************************************************)
(* What OSSemPend's comment says of OS_ERR_EVENT_TYPE (os_sem.c:256): a    *)
(* call on something that is not a semaphore returns, it does not wait.    *)
(***************************************************************************)
WaitsOnlyOnSemaphores ==
  \A e \in Event : OSEventTbl[e] # {} => OSEventType[e] = "SEM"

(***************************************************************************)
(* Every delay and every timeout runs out, whatever handlers, posts and    *)
(* suspensions do meanwhile.                                               *)
(***************************************************************************)
DelayEnds == \A p \in Task : OSTCBDly[p] > 0 ~> OSTCBDly[p] = 0

=============================================================================
