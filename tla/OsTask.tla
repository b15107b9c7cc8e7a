------------------------------- MODULE OsTask -------------------------------
(***************************************************************************)
(* The task and time services of src/os_task.c and src/os_time.c on top of *)
(* the kernel core: a task delays itself, wakes a delayed task, suspends   *)
(* and resumes, creates and deletes.  Calls that only return an error      *)
(* change nothing and are not steps.                                       *)
(*                                                                         *)
(* A call that would block the caller while it holds the scheduler lock is *)
(* outside the contract of OSSchedLock (no code of the SDK does it) and is *)
(* not modelled: MayBlock is the guard that says so.                       *)
(***************************************************************************)
EXTENDS OsCore

CONSTANTS MaySuspend, MayDelete     \* the tasks the application aims at

ASSUME TargetAssumption == /\ MaySuspend \subseteq Task \ {Idle}
                           /\ MayDelete \subseteq Task \ {Idle}

MayBlock(t) == Calling(t) /\ OSLockNesting = 0

OSTimeDly(t, n) ==
  /\ MayBlock(t)
  /\ OSRdyTbl' = OSRdyTbl \ {t}
  /\ OSTCBDly' = [OSTCBDly EXCEPT ![t] = n]
  /\ Reschedule(t)
  /\ UNCHANGED <<cpuVars, tblVars, OSTCBStat, OSTCBPendTO, OSTCBEventPtr,
                 OSEventTbl>>

(* Slip: OSTimeDlyResume leaves the scheduling to the next tick. *)
DlyResumeNoSched(t, p) ==
  /\ Calling(t)
  /\ Used(p) /\ OSTCBDly[p] # 0
  /\ OSTCBDly' = [OSTCBDly EXCEPT ![p] = 0]
  /\ DlyExpired(p)
  /\ Return(t)
  /\ UNCHANGED <<cpuVars, tblVars, OSTCBEventPtr, OSEventTbl>>

(* Cuts the delay of p short; a timed pend ends as if it had timed out. *)
OSTimeDlyResume(t, p) ==
  /\ Calling(t)
  /\ Used(p) /\ OSTCBDly[p] # 0
  /\ OSTCBDly' = [OSTCBDly EXCEPT ![p] = 0]
  /\ DlyExpired(p)
  /\ IF "SUSPEND" \in OSTCBStat[p] THEN Return(t) ELSE Reschedule(t)
  /\ UNCHANGED <<cpuVars, tblVars, OSTCBEventPtr, OSEventTbl>>

OSTaskSuspend(t, p) ==
  /\ IF p = t THEN MayBlock(t) ELSE Calling(t)
  /\ Used(p)
  /\ OSRdyTbl' = OSRdyTbl \ {p}
  /\ OSTCBStat' = [OSTCBStat EXCEPT ![p] = @ \cup {"SUSPEND"}]
  /\ IF p = t THEN Reschedule(t) ELSE Return(t)
  /\ UNCHANGED <<cpuVars, tblVars, OSTCBDly, OSTCBPendTO, OSTCBEventPtr,
                 OSEventTbl>>

OSTaskResume(t, p) ==
  /\ Calling(t)
  /\ Used(p) /\ "SUSPEND" \in OSTCBStat[p]
  /\ OSTCBStat' = [OSTCBStat EXCEPT ![p] = @ \ {"SUSPEND"}]
  /\ IF OSTCBStat[p] = {"SUSPEND"} /\ OSTCBDly[p] = 0
     THEN OSRdyTbl' = OSRdyTbl \cup {p} /\ Reschedule(t)
     ELSE OSRdyTbl' = OSRdyTbl /\ Return(t)
  /\ UNCHANGED <<cpuVars, tblVars, OSTCBDly, OSTCBPendTO, OSTCBEventPtr,
                 OSEventTbl>>

-----------------------------------------------------------------------------
(***************************************************************************)
(* OSTaskCreate reserves the priority, then OS_TCBInit takes a TCB, fills  *)
(* it in with interrupts enabled, and links it; the caller can be          *)
(* interrupted between the three.                                          *)
(***************************************************************************)
TaskReserve(t, p) ==
  /\ Calling(t) /\ OSIntNesting = 0
  /\ OSTCBPrioTbl[p] = "free"
  /\ OSTCBPrioTbl' = [OSTCBPrioTbl EXCEPT ![p] = "reserved"]
  /\ Goto(t, "tcbTake", p)
  /\ UNCHANGED <<OSRdyTbl, cpuVars, OSTCBFree, tcbVars, OSEventTbl>>

TcbTake(t) ==
  /\ At(t, "tcbTake")
  /\ IF OSTCBFree > 0
     THEN OSTCBFree' = OSTCBFree - 1 /\ Goto(t, "tcbLink", arg[t])
     ELSE OSTCBFree' = OSTCBFree /\ Goto(t, "unreserve", arg[t])
  /\ UNCHANGED <<OSRdyTbl, cpuVars, OSTCBPrioTbl, tcbVars, OSEventTbl>>

TcbLink(t) ==
  LET p == arg[t]
  IN  /\ At(t, "tcbLink")
      /\ OSTCBPrioTbl' = [OSTCBPrioTbl EXCEPT ![p] = "used"]
      /\ OSTCBDly' = [OSTCBDly EXCEPT ![p] = 0]
      /\ OSTCBStat' = [OSTCBStat EXCEPT ![p] = {}]
      /\ OSTCBPendTO' = [OSTCBPendTO EXCEPT ![p] = FALSE]
      /\ OSTCBEventPtr' = [OSTCBEventPtr EXCEPT ![p] = None]
      /\ OSRdyTbl' = OSRdyTbl \cup {p}
      /\ pc' = [pc EXCEPT ![p] = "user", ![t] = "sched"]
      /\ arg' = [arg EXCEPT ![p] = None, ![t] = None]
      /\ UNCHANGED <<cpuVars, OSTCBFree, OSEventTbl>>

TaskUnreserve(t) ==
  /\ At(t, "unreserve")
  /\ OSTCBPrioTbl' = [OSTCBPrioTbl EXCEPT ![arg[t]] = "free"]
  /\ Return(t)
  /\ UNCHANGED <<OSRdyTbl, cpuVars, OSTCBFree, tcbVars, OSEventTbl>>

(* Slip: the deleted task is left in the wait list of its event. *)
DelKeepsWaiting(t, p) ==
  /\ IF p = t THEN MayBlock(t) ELSE Calling(t)
  /\ OSIntNesting = 0 /\ Used(p)
  /\ OSRdyTbl' = OSRdyTbl \ {p}
  /\ OSTCBDly' = [OSTCBDly EXCEPT ![p] = 0]
  /\ OSTCBStat' = [OSTCBStat EXCEPT ![p] = {}]
  /\ OSTCBPendTO' = [OSTCBPendTO EXCEPT ![p] = FALSE]
  /\ OSLockNesting' = OSLockNesting + 1
  /\ Goto(t, "tcbFree", p)
  /\ UNCHANGED <<OSPrioCur, OSIntNesting, irq, tick, tickLeft, tblVars,
                 OSTCBEventPtr, OSEventTbl>>

(***************************************************************************)
(* OSTaskDel takes the task out of the ready list and of the wait list it  *)
(* is in, keeps the scheduler locked while it lets interrupts in for a     *)
(* moment (OS_Dummy), then frees the TCB.                                  *)
(***************************************************************************)
TaskDelUnlink(t, p) ==
  /\ IF p = t THEN MayBlock(t) ELSE Calling(t)
  /\ OSIntNesting = 0 /\ Used(p)
  /\ OSRdyTbl' = OSRdyTbl \ {p}
  /\ OSEventTbl' = [e \in Event |-> IF e = OSTCBEventPtr[p]
                                      THEN OSEventTbl[e] \ {p}
                                      ELSE OSEventTbl[e]]
  /\ OSTCBDly' = [OSTCBDly EXCEPT ![p] = 0]
  /\ OSTCBStat' = [OSTCBStat EXCEPT ![p] = {}]
  /\ OSTCBPendTO' = [OSTCBPendTO EXCEPT ![p] = FALSE]
  /\ OSLockNesting' = OSLockNesting + 1
  /\ Goto(t, "tcbFree", p)
  /\ UNCHANGED <<OSPrioCur, OSIntNesting, irq, tick, tickLeft, tblVars,
                 OSTCBEventPtr>>

(* Slips: the deleted task goes on; its TCB is not given back. *)
DelFreeReturns(t) ==
  LET p == arg[t]
  IN  /\ At(t, "tcbFree")
      /\ OSLockNesting' = OSLockNesting - 1
      /\ OSTCBPrioTbl' = [OSTCBPrioTbl EXCEPT ![p] = "free"]
      /\ OSTCBFree' = OSTCBFree + 1
      /\ pc' = [pc EXCEPT ![p] = "user", ![t] = "user"]
      /\ arg' = [arg EXCEPT ![p] = None, ![t] = None]
      /\ UNCHANGED <<OSRdyTbl, OSPrioCur, OSIntNesting, irq, tick, tickLeft,
                     tcbVars, OSEventTbl>>

DelLosesTcb(t) ==
  LET p == arg[t]
  IN  /\ At(t, "tcbFree")
      /\ OSLockNesting' = OSLockNesting - 1
      /\ OSTCBPrioTbl' = [OSTCBPrioTbl EXCEPT ![p] = "free"]
      /\ pc' = [pc EXCEPT ![p] = "user", ![t] = "sched"]
      /\ arg' = [arg EXCEPT ![p] = None, ![t] = None]
      /\ UNCHANGED <<OSRdyTbl, OSPrioCur, OSIntNesting, irq, tick, tickLeft,
                     OSTCBFree, tcbVars, OSEventTbl>>

(* The dead task's place in the code goes with its TCB. *)
TaskDelFree(t) ==
  LET p == arg[t]
  IN  /\ At(t, "tcbFree")
      /\ OSLockNesting' = OSLockNesting - 1
      /\ OSTCBPrioTbl' = [OSTCBPrioTbl EXCEPT ![p] = "free"]
      /\ OSTCBFree' = OSTCBFree + 1
      /\ pc' = [pc EXCEPT ![p] = "user", ![t] = "sched"]
      /\ arg' = [arg EXCEPT ![p] = None, ![t] = None]
      /\ UNCHANGED <<OSRdyTbl, OSPrioCur, OSIntNesting, irq, tick, tickLeft,
                     tcbVars, OSEventTbl>>

-----------------------------------------------------------------------------
KernelCall(t) ==
  \/ OS_Sched(t) \/ TcbTake(t) \/ TcbLink(t) \/ TaskUnreserve(t)
  \/ TaskDelFree(t)

AppCall(t) ==
  \/ \E n \in 1 .. MaxDly : OSTimeDly(t, n)
  \/ \E p \in Task \ {Idle} : OSTimeDlyResume(t, p) \/ TaskReserve(t, p)
  \/ \E p \in MaySuspend : OSTaskSuspend(t, p) \/ OSTaskResume(t, p)
  \/ \E p \in MayDelete : TaskDelUnlink(t, p)
  \/ OSSchedLock(t) \/ OSSchedUnlock(t)

Interrupt == IrqEntry \/ IrqExit \/ TickEntry \/ OSIntExit
             \/ \E p \in Task : TickOne(p)

CoreNext == Interrupt \/ \E t \in Task : KernelCall(t) \/ AppCall(t)
=============================================================================
