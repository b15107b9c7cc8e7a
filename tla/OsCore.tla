------------------------------- MODULE OsCore -------------------------------
(***************************************************************************)
(* The uC/OS-II kernel core of src/os_core.c, src/os_time.c and            *)
(* src/os_task.c, with the interrupt entry and exit paths of               *)
(* src/os_cpu_a.s and src/cstartup_flash.s: ready list, scheduler, clock   *)
(* tick, delays, suspension, scheduler lock, task creation and deletion,   *)
(* and the wait lists every kind of event shares.                          *)
(*                                                                         *)
(* A task is named by its priority; a smaller number is more urgent.  The  *)
(* bitmaps OSRdyGrp/OSRdyTbl and OSEventGrp/OSEventTbl are sets of         *)
(* priorities.  There is one CPU: only the task OSPrioCur takes steps, and *)
(* only while no interrupt handler is active.  Each region between         *)
(* OS_ENTER_CRITICAL and OS_EXIT_CRITICAL is one step, and an interrupt    *)
(* may come between any two, in particular between the region that blocks  *)
(* or readies a task and the OS_Sched() that follows it.                   *)
(*                                                                         *)
(* This module defines the state, the helpers and the actions; the modules *)
(* OsSem and OsMsg add the events and compose the specification.           *)
(***************************************************************************)
EXTENDS Integers, FiniteSets

CONSTANTS Task,       \* the priorities in use, the idle task's included
          Idle,       \* OS_IDLE_PRIO
          Event,      \* the OS_EVENT control blocks of OSEventTbl
          None,       \* the null pointer
          MaxDly,     \* bound on the ticks of a delay or a timeout
          Boot,       \* the tasks that exist when OSStart is called
          SpareTcb,   \* TCBs then left on OSTCBFreeList
          MaxLock     \* bound on nested OSSchedLock calls (255 in the code)

ASSUME CoreAssumption ==
  /\ Task \subseteq Nat
  /\ Idle \in Boot /\ Boot \subseteq Task /\ \A p \in Task : p <= Idle
  /\ None \notin Task /\ None \notin Event /\ Task \cap Event = {}
  /\ IsFiniteSet(Event)
  /\ MaxDly \in Nat \ {0} /\ SpareTcb \in Nat /\ MaxLock \in Nat

VARIABLES
  OSRdyTbl,        \* ready priorities
  OSPrioCur,       \* the running task
  OSIntNesting, OSLockNesting,
  irq,             \* a handler of irq_manager is active
  tick,            \* OS_CPU_IRQ_ISR is active
  tickLeft,        \* TCBs OSTimeTick has still to visit
  OSTCBPrioTbl,    \* "free", "reserved" (the pointer 1) or "used"
  OSTCBFree,       \* length of OSTCBFreeList
  OSTCBDly, OSTCBStat, OSTCBPendTO, OSTCBEventPtr,
  OSEventTbl,      \* per event, the waiting priorities
  pc,              \* per task, where it is inside a kernel call
  arg              \* per task, the event or task its call is about

cpuVars == <<OSPrioCur, OSIntNesting, OSLockNesting, irq, tick, tickLeft>>
tblVars == <<OSTCBPrioTbl, OSTCBFree>>
tcbVars == <<OSTCBDly, OSTCBStat, OSTCBPendTO, OSTCBEventPtr>>
coreVars == <<OSRdyTbl, cpuVars, tblVars, tcbVars, OSEventTbl, pc, arg>>

Pend == {"SEM", "MBOX", "Q"}          \* OS_STAT_PEND_ANY
Stat == Pend \cup {"SUSPEND"}

Used(p) == OSTCBPrioTbl[p] = "used"

(* OSUnMapTbl finds the lowest set bit: the most urgent of a set. *)
Highest(S) == CHOOSE p \in S : \A q \in S : p <= q

Running(t) == ~irq /\ ~tick /\ OSPrioCur = t
Calling(t) == Running(t) /\ pc[t] = "user" /\ t # Idle
At(t, label) == Running(t) /\ pc[t] = label
Goto(t, label, a) == /\ pc' = [pc EXCEPT ![t] = label]
                     /\ arg' = [arg EXCEPT ![t] = a]
Return(t) == Goto(t, "user", None)
Reschedule(t) == Goto(t, "sched", None)     \* then OS_Sched(), then return

-----------------------------------------------------------------------------
(* Helpers on the ready list and the wait lists. *)

(* Is p ready once its status is s and its delay has run out? *)
ReadyIf(p, s) == IF s = {} THEN OSRdyTbl \cup {p} ELSE OSRdyTbl

(* Slips: OSTCBPendTO is left set; the pending status is left set. *)
TaskRdyKeepsTimeout(e, S, msk) ==
  /\ OSEventTbl' = [OSEventTbl EXCEPT ![e] = @ \ S]
  /\ OSTCBDly' = [p \in Task |-> IF p \in S THEN 0 ELSE OSTCBDly[p]]
  /\ OSTCBEventPtr' = [p \in Task |-> IF p \in S THEN None ELSE OSTCBEventPtr[p]]
  /\ OSTCBStat' = [p \in Task |-> IF p \in S THEN OSTCBStat[p] \ {msk}
                                             ELSE OSTCBStat[p]]
  /\ OSRdyTbl' = OSRdyTbl \cup {p \in S : OSTCBStat[p] \ {msk} = {}}
  /\ UNCHANGED OSTCBPendTO

TaskRdyKeepsStat(e, S, msk) ==
  /\ OSEventTbl' = [OSEventTbl EXCEPT ![e] = @ \ S]
  /\ OSTCBDly' = [p \in Task |-> IF p \in S THEN 0 ELSE OSTCBDly[p]]
  /\ OSTCBEventPtr' = [p \in Task |-> IF p \in S THEN None ELSE OSTCBEventPtr[p]]
  /\ OSTCBPendTO' = [p \in Task |-> p \notin S /\ OSTCBPendTO[p]]
  /\ OSRdyTbl' = OSRdyTbl \cup {p \in S : OSTCBStat[p] = {}}
  /\ UNCHANGED OSTCBStat

(***************************************************************************)
(* OS_EventTaskRdy for every task of S, all waiting on e: the event is     *)
(* theirs, and those not suspended too become ready.                       *)
(***************************************************************************)
EventTaskRdy(e, S, msk) ==
  /\ OSEventTbl' = [OSEventTbl EXCEPT ![e] = @ \ S]
  /\ OSTCBDly' = [p \in Task |-> IF p \in S THEN 0 ELSE OSTCBDly[p]]
  /\ OSTCBEventPtr' = [p \in Task |-> IF p \in S THEN None ELSE OSTCBEventPtr[p]]
  /\ OSTCBPendTO' = [p \in Task |-> p \notin S /\ OSTCBPendTO[p]]
  /\ OSTCBStat' = [p \in Task |-> IF p \in S THEN OSTCBStat[p] \ {msk}
                                             ELSE OSTCBStat[p]]
  /\ OSRdyTbl' = OSRdyTbl \cup {p \in S : OSTCBStat[p] \ {msk} = {}}

(* The running task t stops and waits on e, for n ticks or for ever (0). *)
EventTaskWait(t, e, msk, n) ==
  /\ OSTCBStat' = [OSTCBStat EXCEPT ![t] = @ \cup {msk}]
  /\ OSTCBPendTO' = [OSTCBPendTO EXCEPT ![t] = FALSE]
  /\ OSTCBDly' = [OSTCBDly EXCEPT ![t] = n]
  /\ OSTCBEventPtr' = [OSTCBEventPtr EXCEPT ![t] = e]
  /\ OSRdyTbl' = OSRdyTbl \ {t}
  /\ OSEventTbl' = [OSEventTbl EXCEPT ![e] = @ \cup {t}]

(***************************************************************************)
(* The critical region a pend call ends in, once its task runs again: it   *)
(* is either timed out and leaves the wait list, or it has the event.      *)
(***************************************************************************)
EventTO(t) ==
  /\ OSTCBPendTO[t]
  /\ OSEventTbl' = [OSEventTbl EXCEPT ![arg[t]] = @ \ {t}]
  /\ OSTCBPendTO' = [OSTCBPendTO EXCEPT ![t] = FALSE]
  /\ OSTCBStat' = [OSTCBStat EXCEPT ![t] = {}]
  /\ OSTCBEventPtr' = [OSTCBEventPtr EXCEPT ![t] = None]
  /\ UNCHANGED <<OSRdyTbl, OSTCBDly>>

EventGot(t) ==
  /\ ~OSTCBPendTO[t]
  /\ OSTCBEventPtr' = [OSTCBEventPtr EXCEPT ![t] = None]
  /\ UNCHANGED <<OSRdyTbl, OSTCBDly, OSTCBStat, OSTCBPendTO, OSEventTbl>>

(* The delay of p ran out: a pending task is timed out, but stays listed. *)
DlyExpired(p) ==
  /\ OSTCBStat' = [OSTCBStat EXCEPT ![p] = @ \ Pend]
  /\ OSTCBPendTO' = [OSTCBPendTO EXCEPT ![p] = OSTCBStat[p] \cap Pend # {}]
  /\ OSRdyTbl' = ReadyIf(p, OSTCBStat[p] \ Pend)

-----------------------------------------------------------------------------
(* The scheduler. *)

(* The task to run next, at interrupt nesting level n. *)
Dispatch(n) == IF n = 0 /\ OSLockNesting = 0 THEN Highest(OSRdyTbl) ELSE OSPrioCur

(***************************************************************************)
(* OS_Sched(), the last thing a call does before it returns ("sched") or   *)
(* before the second half of a pend ("schedPend").                         *)
(***************************************************************************)
OS_Sched(t) ==
  /\ \/ At(t, "sched") /\ Return(t)
     \/ At(t, "schedPend") /\ Goto(t, "pended", arg[t])
  /\ OSPrioCur' = Dispatch(OSIntNesting)
  /\ UNCHANGED <<OSRdyTbl, OSIntNesting, OSLockNesting, irq, tick, tickLeft,
                 tblVars, tcbVars, OSEventTbl>>

OSSchedLock(t) ==
  /\ Calling(t)
  /\ OSLockNesting < MaxLock
  /\ OSLockNesting' = OSLockNesting + 1
  /\ UNCHANGED <<OSRdyTbl, OSPrioCur, OSIntNesting, irq, tick, tickLeft,
                 tblVars, tcbVars, OSEventTbl, pc, arg>>

OSSchedUnlock(t) ==
  /\ Calling(t)
  /\ OSLockNesting > 0
  /\ OSLockNesting' = OSLockNesting - 1
  /\ IF OSLockNesting = 1 THEN Reschedule(t) ELSE Return(t)
  /\ UNCHANGED <<OSRdyTbl, OSPrioCur, OSIntNesting, irq, tick, tickLeft,
                 tblVars, tcbVars, OSEventTbl>>

-----------------------------------------------------------------------------
(* Interrupts. *)

(***************************************************************************)
(* IRQ_ENTRY and IRQ_EXIT around irq_manager: the nesting level is counted *)
(* but leaving the handler does not call OSIntExit, so the interrupted     *)
(* task goes on even if the handler readied a more urgent one.  The AIC    *)
(* lets such an interrupt nest on the tick, whose level is the lowest.     *)
(***************************************************************************)
IrqEntry ==
  /\ ~irq
  /\ irq' = TRUE
  /\ OSIntNesting' = OSIntNesting + 1
  /\ UNCHANGED <<OSRdyTbl, OSPrioCur, OSLockNesting, tick, tickLeft, tblVars,
                 tcbVars, OSEventTbl, pc, arg>>

IrqExit ==
  /\ irq
  /\ irq' = FALSE
  /\ OSIntNesting' = OSIntNesting - 1
  /\ UNCHANGED <<OSRdyTbl, OSPrioCur, OSLockNesting, tick, tickLeft, tblVars,
                 tcbVars, OSEventTbl, pc, arg>>

(***************************************************************************)
(* OS_CPU_IRQ_ISR: OSTimeTick visits the TCBs one critical region at a     *)
(* time (those without a delay are left as they are), then OSIntExit.      *)
(***************************************************************************)
TickEntry ==
  /\ ~irq /\ ~tick
  /\ tick' = TRUE
  /\ OSIntNesting' = OSIntNesting + 1
  /\ tickLeft' = {p \in Task \ {Idle} : OSTCBDly[p] # 0}
  /\ UNCHANGED <<OSRdyTbl, OSPrioCur, OSLockNesting, irq, tblVars, tcbVars,
                 OSEventTbl, pc, arg>>

(* Slip: a tick that ends the delay of a suspended task makes it ready. *)
TickReadiesSuspended(p) ==
  /\ tick /\ ~irq
  /\ p \in tickLeft
  /\ tickLeft' = tickLeft \ {p}
  /\ OSTCBDly' = [OSTCBDly EXCEPT ![p] = IF @ = 0 THEN 0 ELSE @ - 1]
  /\ IF OSTCBDly[p] = 1
     THEN /\ OSTCBStat' = [OSTCBStat EXCEPT ![p] = @ \ Pend]
          /\ OSTCBPendTO' = [OSTCBPendTO EXCEPT ![p] = OSTCBStat[p] \cap Pend # {}]
          /\ OSRdyTbl' = OSRdyTbl \cup {p}
     ELSE UNCHANGED <<OSRdyTbl, OSTCBStat, OSTCBPendTO>>
  /\ UNCHANGED <<OSPrioCur, OSIntNesting, OSLockNesting, irq, tick, tblVars,
                 OSTCBEventPtr, OSEventTbl, pc, arg>>

(* Slip: the delay of a suspended task stands still. *)
TickSkipsSuspended(p) ==
  /\ tick /\ ~irq
  /\ p \in tickLeft
  /\ tickLeft' = tickLeft \ {p}
  /\ IF OSTCBDly[p] = 0 \/ "SUSPEND" \in OSTCBStat[p]
     THEN UNCHANGED <<OSRdyTbl, OSTCBDly, OSTCBStat, OSTCBPendTO>>
     ELSE /\ OSTCBDly' = [OSTCBDly EXCEPT ![p] = @ - 1]
          /\ IF OSTCBDly[p] = 1
             THEN DlyExpired(p)
             ELSE UNCHANGED <<OSRdyTbl, OSTCBStat, OSTCBPendTO>>
  /\ UNCHANGED <<OSPrioCur, OSIntNesting, OSLockNesting, irq, tick, tblVars,
                 OSTCBEventPtr, OSEventTbl, pc, arg>>

TickOne(p) ==
  /\ tick /\ ~irq
  /\ p \in tickLeft
  /\ tickLeft' = tickLeft \ {p}
  /\ IF OSTCBDly[p] = 0 THEN UNCHANGED <<OSRdyTbl, OSTCBDly, OSTCBStat, OSTCBPendTO>>
     ELSE /\ OSTCBDly' = [OSTCBDly EXCEPT ![p] = @ - 1]
          /\ IF OSTCBDly[p] = 1
             THEN DlyExpired(p)
             ELSE UNCHANGED <<OSRdyTbl, OSTCBStat, OSTCBPendTO>>
  /\ UNCHANGED <<OSPrioCur, OSIntNesting, OSLockNesting, irq, tick, tblVars,
                 OSTCBEventPtr, OSEventTbl, pc, arg>>

OSIntExit ==
  /\ tick /\ ~irq /\ tickLeft = {}
  /\ tick' = FALSE
  /\ OSIntNesting' = OSIntNesting - 1
  /\ OSPrioCur' = Dispatch(OSIntNesting - 1)
  /\ UNCHANGED <<OSRdyTbl, OSLockNesting, irq, tickLeft, tblVars, tcbVars,
                 OSEventTbl, pc, arg>>

-----------------------------------------------------------------------------
CoreInit ==
  /\ OSRdyTbl = Boot
  /\ OSPrioCur = Highest(Boot)
  /\ OSIntNesting = 0 /\ OSLockNesting = 0
  /\ irq = FALSE /\ tick = FALSE /\ tickLeft = {}
  /\ OSTCBPrioTbl = [p \in Task |-> IF p \in Boot THEN "used" ELSE "free"]
  /\ OSTCBFree = SpareTcb
  /\ OSTCBDly = [p \in Task |-> 0]
  /\ OSTCBStat = [p \in Task |-> {}]
  /\ OSTCBPendTO = [p \in Task |-> FALSE]
  /\ OSTCBEventPtr = [p \in Task |-> None]
  /\ OSEventTbl = [e \in Event |-> {}]
  /\ pc = [p \in Task |-> "user"]
  /\ arg = [p \in Task |-> None]
=============================================================================
